---- MODULE Spec2Model ----
(***************************************************************************)
(* A model of the xk6-dns extension: the nameserver address parsers, the   *)
(* record-type model and the resolution client (query construction,        *)
(* transport exchange, answer decoding).                                   *)
(*                                                                         *)
(* Go strings are modelled as sequences of one-character strings, so that  *)
(* splitting, trimming, formatting and parsing are computed character by   *)
(* character.  A net.IP is the sequence of its bytes (length 4 or 16); the *)
(* nil IP is the empty sequence.                                           *)
(*                                                                         *)
(* The repository holds two generations of the code: the package under     *)
(* dns/ (module.go, record_type.go and the client that goes with them) and *)
(* the current package (client, module and nameserver files).  Both are    *)
(* modelled; definitions of the dns/ package that collide with current     *)
(* names are prefixed Dns.                                                 *)
(***************************************************************************)
EXTENDS Integers, Sequences, FiniteSets, TLC

\* ------------------------------------------------------------------ bounds

\* Every string of at most MaxShort characters over ShortAlphabet is a parser input.
MaxShort == 3

\* The longest answer section the modelled nameserver returns.
MaxAnswers == 2

\* The calls of one module instance that run side by side.
MaxCalls == 2

\* The capacity of the samples channel.
SamplesCap == 2

\* Every string of at most MaxTypeName characters over TypeNameAlphabet is a
\* record-type name asked for.
MaxTypeName == 2

\* ------------------------------------------------------- program constants

\* The default DNS port.
DefaultPort == 53

\* The largest valid port.
MaxPort == 65535

\* uint16 conversion wraps modulo this.
Uint16Mod == 65536

\* miekg/dns response codes.
RcodeSuccess == 0

RcodeNameError == 3

\* ------------------------------------------------------------ string tools

Digits == <<"0", "1", "2", "3", "4", "5", "6", "7", "8", "9">>

HexLower == <<"0", "1", "2", "3", "4", "5", "6", "7", "8", "9", "a", "b", "c", "d", "e", "f">>

HexUpper == <<"0", "1", "2", "3", "4", "5", "6", "7", "8", "9", "A", "B", "C", "D", "E", "F">>

IsDigit(c) == \E i \in 1..10 : Digits[i] = c

DigitVal(c) == (CHOOSE i \in 1..10 : Digits[i] = c) - 1

IsHex(c) == \E i \in 1..16 : HexLower[i] = c \/ HexUpper[i] = c

HexVal(c) == (CHOOSE i \in 1..16 : HexLower[i] = c \/ HexUpper[i] = c) - 1

\* strings.ContainsRune / strings.Contains for a one-character needle.
Contains(s, c) == \E i \in 1..Len(s) : s[i] = c

\* Index of the first c in s (1-based), 0 when absent.
IndexByte(s, c) ==
    IF Contains(s, c) THEN CHOOSE i \in 1..Len(s) : s[i] = c /\ \A j \in 1..(i - 1) : s[j] # c
    ELSE 0

\* Index of the last c in s (1-based), 0 when absent.
LastIndexByte(s, c) ==
    IF Contains(s, c) THEN CHOOSE i \in 1..Len(s) : s[i] = c /\ \A j \in (i + 1)..Len(s) : s[j] # c
    ELSE 0

\* s[from:] in 1-based, inclusive form.
Tail2(s, from) == SubSeq(s, from, Len(s))

\* strconv.Itoa for a non-negative integer.
RECURSIVE Itoa(_)
Itoa(n) == IF n < 10 THEN <<Digits[n + 1]>> ELSE Itoa(n \div 10) \o <<Digits[(n % 10) + 1]>>

\* The value of a digit string, saturating at cap so that it stays a small integer.
RECURSIVE DigitsValue(_, _, _)
DigitsValue(s, acc, cap) ==
    IF s = <<>> THEN acc
    ELSE LET v == acc * 10 + DigitVal(Head(s))
         IN  DigitsValue(Tail(s), IF v > cap THEN cap ELSE v, cap)

\* Drops leading "0" characters.
RECURSIVE StripZeros(_)
StripZeros(s) == IF s # <<>> /\ Head(s) = "0" THEN StripZeros(Tail(s)) ELSE s

\* The decimal digits of the largest int64, 9223372036854775807.
MaxInt64Digits == <<"9","2","2","3","3","7","2","0","3","6","8","5","4","7","7","5","8","0","7">>

\* Lexicographic s > t for digit strings of equal length.
RECURSIVE DigitsGreater(_, _)
DigitsGreater(s, t) ==
    IF s = <<>> THEN FALSE
    ELSE IF DigitVal(Head(s)) # DigitVal(Head(t)) THEN DigitVal(Head(s)) > DigitVal(Head(t))
    ELSE DigitsGreater(Tail(s), Tail(t))

\* Whether the magnitude written by digit string s exceeds the int64 range
\* (for a negative number the limit is one more; the difference is ignored
\* except for that one value, which is outside every input of the model).
OverflowsInt64(s) ==
    LET d == StripZeros(s)
    IN  \/ Len(d) > 19
        \/ Len(d) = 19 /\ DigitsGreater(d, MaxInt64Digits)

\* Digit strings saturate here when read as a number: every value above it is
\* far outside the port range and compares as such.
AtoiCap == 1000000

\* The value of a digit string modulo 2^16, computed digit by digit.
RECURSIVE DigitsLow16(_, _)
DigitsLow16(s, acc) ==
    IF s = <<>> THEN acc
    ELSE DigitsLow16(Tail(s), (acc * 10 + DigitVal(Head(s))) % Uint16Mod)

\* strconv.Atoi: an optional sign, then at least one decimal digit and nothing
\* else; a value outside int64 is a range error.  Result: [ok, val, low16, why],
\* val the number (saturated at AtoiCap in magnitude), low16 its low 16 bits.
Atoi(s) ==
    LET signed == s # <<>> /\ Head(s) \in {"+", "-"}
        body   == IF signed THEN Tail(s) ELSE s
        neg    == signed /\ Head(s) = "-"
    IN  IF body = <<>> \/ \E i \in 1..Len(body) : ~IsDigit(body[i])
        THEN [ok |-> FALSE, val |-> 0, low16 |-> 0, why |-> "syntax"]
        ELSE IF OverflowsInt64(body)
        THEN [ok |-> FALSE, val |-> 0, low16 |-> 0, why |-> "range"]
        ELSE LET v == DigitsValue(body, 0, AtoiCap)
                 l == DigitsLow16(body, 0)
             IN  [ok |-> TRUE, val |-> IF neg THEN 0 - v ELSE v,
                  low16 |-> IF neg THEN (Uint16Mod - l) % Uint16Mod ELSE l, why |-> ""]

\* ------------------------------------------------------- net.SplitHostPort

\* The standard library's host:port split.  Result: [ok, host, port, why]; on
\* failure host and port are both empty, as in Go.
SplitErr(why) == [ok |-> FALSE, host |-> <<>>, port |-> <<>>, why |-> why]

SplitHostPort(hostport) ==
    LET i == LastIndexByte(hostport, ":")
    IN  IF i = 0 THEN SplitErr("missing port in address")
        ELSE IF hostport[1] = "["
        THEN LET end == IndexByte(hostport, "]")
             IN  IF end = 0 THEN SplitErr("missing ']' in address")
                 ELSE IF end = Len(hostport) THEN SplitErr("missing port in address")
                 ELSE IF end + 1 # i
                 THEN (IF hostport[end + 1] = ":"
                       THEN SplitErr("too many colons in address")
                       ELSE SplitErr("missing port in address"))
                 ELSE IF Contains(Tail2(hostport, 2), "[")
                 THEN SplitErr("unexpected '[' in address")
                 ELSE IF Contains(Tail2(hostport, end + 1), "]")
                 THEN SplitErr("unexpected ']' in address")
                 ELSE [ok |-> TRUE, host |-> SubSeq(hostport, 2, end - 1),
                       port |-> Tail2(hostport, i + 1), why |-> ""]
        ELSE LET host == SubSeq(hostport, 1, i - 1)
             IN  IF Contains(host, ":") THEN SplitErr("too many colons in address")
                 ELSE IF Contains(hostport, "[") THEN SplitErr("unexpected '[' in address")
                 ELSE IF Contains(hostport, "]") THEN SplitErr("unexpected ']' in address")
                 ELSE [ok |-> TRUE, host |-> host, port |-> Tail2(hostport, i + 1), why |-> ""]

\* ------------------------------------------------------------- net.ParseIP

\* The nil net.IP.
NilIP == <<>>

\* The fields of s between the separators c.
RECURSIVE SplitOn(_, _)
SplitOn(s, c) ==
    LET k == IndexByte(s, c)
    IN  IF k = 0 THEN <<s>> ELSE <<SubSeq(s, 1, k - 1)>> \o SplitOn(Tail2(s, k + 1), c)

\* One dotted-decimal octet: digits only, no leading zero, at most 255.
ValidOctet(f) ==
    /\ f # <<>>
    /\ \A i \in 1..Len(f) : IsDigit(f[i])
    /\ (Len(f) > 1 => f[1] # "0")
    /\ DigitsValue(f, 0, 1000) <= 255

\* The four bytes of a dotted-decimal IPv4 literal, or <<>>.
ParseIPv4Fields(s) ==
    LET fs == SplitOn(s, ".")
    IN  IF Len(fs) = 4 /\ \A i \in 1..4 : ValidOctet(fs[i])
        THEN [i \in 1..4 |-> DigitsValue(fs[i], 0, 1000)]
        ELSE <<>>

\* The length of the longest prefix of hexadecimal digits.
RECURSIVE HexRun(_)
HexRun(s) == IF s # <<>> /\ IsHex(Head(s)) THEN 1 + HexRun(Tail(s)) ELSE 0

RECURSIVE HexValue(_, _)
HexValue(s, acc) == IF s = <<>> THEN acc ELSE HexValue(Tail(s), acc * 16 + HexVal(Head(s)))

Zeros(n) == [i \in 1..n |-> 0]

\* The end of the IPv6 parse: every character consumed; a short address is
\* completed at the ellipsis, a full one must have none.
V6Finish(ip, ellipsis) ==
    IF Len(ip) < 16
    THEN (IF ellipsis < 0 THEN NilIP
          ELSE SubSeq(ip, 1, ellipsis) \o Zeros(16 - Len(ip)) \o SubSeq(ip, ellipsis + 1, Len(ip)))
    ELSE IF ellipsis >= 0 THEN NilIP ELSE ip

\* The group loop of the IPv6 parser: s is what is left, ip the bytes parsed
\* so far, ellipsis the byte position of "::" (-1: none yet).
RECURSIVE V6Loop(_, _, _)
V6Loop(s, ip, ellipsis) ==
    IF Len(ip) >= 16 THEN (IF s = <<>> THEN V6Finish(ip, ellipsis) ELSE NilIP)
    ELSE LET off == HexRun(s)
         IN  IF off = 0 \/ off > 4 THEN NilIP
             ELSE IF off < Len(s) /\ s[off + 1] = "."
             THEN (IF (ellipsis < 0 /\ Len(ip) # 12) \/ Len(ip) + 4 > 16 THEN NilIP
                   ELSE LET v4 == ParseIPv4Fields(s)
                        IN  IF v4 = <<>> THEN NilIP ELSE V6Finish(ip \o v4, ellipsis))
             ELSE LET acc  == HexValue(SubSeq(s, 1, off), 0)
                      ip2  == ip \o <<acc \div 256, acc % 256>>
                      rest == Tail2(s, off + 1)
                  IN  IF rest = <<>> THEN V6Finish(ip2, ellipsis)
                      ELSE IF rest[1] # ":" \/ Len(rest) = 1 THEN NilIP
                      ELSE IF rest[2] = ":"
                      THEN (IF ellipsis >= 0 THEN NilIP
                            ELSE IF Len(rest) = 2 THEN V6Finish(ip2, Len(ip2))
                            ELSE V6Loop(Tail2(rest, 3), ip2, Len(ip2)))
                      ELSE V6Loop(Tail2(rest, 2), ip2, ellipsis)

ParseIPv6(s) ==
    IF Len(s) >= 2 /\ s[1] = ":" /\ s[2] = ":"
    THEN (IF Len(s) = 2 THEN Zeros(16) ELSE V6Loop(Tail2(s, 3), <<>>, 0))
    ELSE V6Loop(s, <<>>, -1)

\* The first of '.', ':' and '%' in s decides the family ("": none of them).
RECURSIVE FirstMark(_)
FirstMark(s) ==
    IF s = <<>> THEN ""
    ELSE IF Head(s) \in {".", ":", "%"} THEN Head(s)
    ELSE FirstMark(Tail(s))

V4Mapped(b) == Zeros(10) \o <<255, 255>> \o b

\* net.ParseIP: the 16-byte form of an IPv4 or IPv6 literal, nil for anything
\* else (a literal with a zone included).
ParseIP(s) ==
    IF Contains(s, "%") THEN NilIP
    ELSE IF FirstMark(s) = "."
    THEN LET b == ParseIPv4Fields(s) IN IF b = <<>> THEN NilIP ELSE V4Mapped(b)
    ELSE IF FirstMark(s) = ":" THEN ParseIPv6(s)
    ELSE NilIP

\* --------------------------------------------------------- net.IP.String()

\* ip.To4(): the four bytes of an IPv4 address in either form, or <<>>.
To4(ip) ==
    IF Len(ip) = 4 THEN ip
    ELSE IF Len(ip) = 16 /\ SubSeq(ip, 1, 12) = Zeros(10) \o <<255, 255>> THEN SubSeq(ip, 13, 16)
    ELSE <<>>

\* Lower-case hexadecimal without leading zeros.
RECURSIVE HexString(_)
HexString(n) ==
    IF n < 16 THEN <<HexLower[n + 1]>> ELSE HexString(n \div 16) \o <<HexLower[(n % 16) + 1]>>

\* The eight 16-bit groups of a 16-byte address.
Groups(ip) == [i \in 1..8 |-> ip[2 * i - 1] * 256 + ip[2 * i]]

\* The length of the run of zero groups starting at group i.
RECURSIVE ZeroRun(_, _)
ZeroRun(g, i) == IF i <= 8 /\ g[i] = 0 THEN 1 + ZeroRun(g, i + 1) ELSE 0

\* The start of the first longest run of at least two zero groups, 0 if none.
ZeroStart(g) ==
    IF \E i \in 1..8 : ZeroRun(g, i) >= 2
    THEN CHOOSE i \in 1..8 :
            /\ ZeroRun(g, i) >= 2
            /\ \A j \in 1..8 : ZeroRun(g, j) <= ZeroRun(g, i)
            /\ \A j \in 1..(i - 1) : ZeroRun(g, j) < ZeroRun(g, i)
    ELSE 0

RECURSIVE String6(_, _, _)
String6(g, i, zs) ==
    IF i > 8 THEN <<>>
    ELSE IF i = zs
    THEN <<":", ":">> \o
         (LET k == i + ZeroRun(g, i)
          IN  IF k > 8 THEN <<>> ELSE HexString(g[k]) \o String6(g, k + 1, zs))
    ELSE (IF i > 1 THEN <<":">> ELSE <<>>) \o HexString(g[i]) \o String6(g, i + 1, zs)

IPString(ip) ==
    IF Len(ip) = 0 THEN <<"<", "n", "i", "l", ">">>
    ELSE IF Len(ip) # 4 /\ Len(ip) # 16 THEN <<"?">>
    ELSE LET p4 == To4(ip)
         IN  IF Len(p4) = 4
             THEN Itoa(p4[1]) \o <<".">> \o Itoa(p4[2]) \o <<".">> \o Itoa(p4[3]) \o <<".">> \o Itoa(p4[4])
             ELSE String6(Groups(ip), 1, ZeroStart(Groups(ip)))

\* ------------------------------------------------------ parser inputs

\* IPv4 literals with the bytes they denote.
KnownIPv4 ==
    { [text |-> <<"1", ".", "2", ".", "3", ".", "4">>,
       bytes |-> <<1, 2, 3, 4>>],
      [text |-> <<"2", "0", "3", ".", "0", ".", "1", "1", "3", ".", "1">>,
       bytes |-> <<203, 0, 113, 1>>],
      [text |-> <<"0", ".", "0", ".", "0", ".", "0">>,
       bytes |-> <<0, 0, 0, 0>>],
      [text |-> <<"2", "5", "5", ".", "2", "5", "5", ".", "2", "5", "5", ".", "2", "5", "5">>,
       bytes |-> <<255, 255, 255, 255>>] }

\* IPv6 literals with the bytes they denote.
KnownIPv6 ==
    { [text |-> <<":", ":">>,
       bytes |-> <<0, 0, 0, 0, 0, 0, 0, 0, 0, 0, 0, 0, 0, 0, 0, 0>>],
      [text |-> <<":", ":", "1">>,
       bytes |-> <<0, 0, 0, 0, 0, 0, 0, 0, 0, 0, 0, 0, 0, 0, 0, 1>>],
      [text |-> <<"f", "d", "0", "0", ":", ":", "1">>,
       bytes |-> <<253, 0, 0, 0, 0, 0, 0, 0, 0, 0, 0, 0, 0, 0, 0, 1>>],
      [text |-> <<"F", "D", "0", "0", ":", ":", "a">>,
       bytes |-> <<253, 0, 0, 0, 0, 0, 0, 0, 0, 0, 0, 0, 0, 0, 0, 10>>],
      [text |-> <<"1", ":", "2", ":", "3", ":", "4", ":", "5", ":", "6", ":", "7", ":", "8">>,
       bytes |-> <<0, 1, 0, 2, 0, 3, 0, 4, 0, 5, 0, 6, 0, 7, 0, 8>>],
      [text |-> <<":", ":", "f", "f", "f", "f", ":", "1", ".", "2", ".", "3", ".", "4">>,
       bytes |-> <<0, 0, 0, 0, 0, 0, 0, 0, 0, 0, 255, 255, 1, 2, 3, 4>>],
      [text |-> <<"2", "0", "0", "1", ":", "d", "b", "8", ":", ":">>,
       bytes |-> <<32, 1, 13, 184, 0, 0, 0, 0, 0, 0, 0, 0, 0, 0, 0, 0>>] }

\* Host strings that are no IP literal: hostnames, malformed and zoned addresses.
NonIPHosts ==
    { <<"n", "o", "t", "-", "a", "n", "-", "i", "p">>,
      <<"l", "o", "c", "a", "l", "h", "o", "s", "t">>,
      <<>>,
      <<"2", "5", "6", ".", "1", ".", "1", ".", "1">>,
      <<"1", ".", "2", ".", "3">>,
      <<"0", "1", ".", "2", ".", "3", ".", "4">>,
      <<"1", ".", "2", ".", "3", ".", "4", ".", "5">>,
      <<"1", ":", "2", ":", "3">>,
      <<"f", "d", "0", "0", ":", ":", "1", ":", ":", "2">>,
      <<"1", "2", "3", "4", "5", ":", ":">>,
      <<"f", "e", "8", "0", ":", ":", "1", "%", "e">>,
      <<"1", ":", "2", ":", "3", ":", "4", ":", "5", ":", "6", ":", "7", ":", "8", ":", "9">>,
      <<":", ":", "g">> }

\* Port numbers of the valid range, its ends included.
PortNumbers == {0, 1, 9, 10, 53, 5353, 65534, 65535}

\* Port substrings beyond the plain decimal forms of PortNumbers.
OddPorts ==
    { <<>>,
      <<"6", "5", "5", "3", "6">>,
      <<"9", "9", "9", "9", "9", "9">>,
      <<"-", "1">>,
      <<"-", "0">>,
      <<"+", "5", "3">>,
      <<"0", "5", "3">>,
      <<"a", "b", "c">>,
      <<"5", "x">>,
      <<"5", " ", "3">>,
      <<"9", "9", "9", "9", "9", "9", "9", "9", "9", "9", "9", "9", "9", "9", "9", "9", "9", "9", "9", "9">> }

HostTexts == {k.text : k \in KnownIPv4 \cup KnownIPv6} \cup NonIPHosts

PortTexts == {Itoa(p) : p \in PortNumbers} \cup OddPorts

\* The characters of the exhaustively enumerated short inputs.
ShortAlphabet == {":", "[", "]", "1", "a", "."}

\* All strings over alphabet of length at most n.
RECURSIVE StringsUpTo(_, _)
StringsUpTo(alphabet, n) ==
    IF n = 0 THEN {<<>>}
    ELSE LET shorter == StringsUpTo(alphabet, n - 1)
         IN  shorter \cup {<<c>> \o t : c \in alphabet, t \in {u \in shorter : Len(u) = n - 1}}

\* A host, optionally between an opening and a closing bracket (either may be
\* missing), optionally followed by ":" and a port substring.
ComposedAddrs ==
    {open \o h \o close \o tail :
        open \in {<<>>, <<"[">>}, h \in HostTexts, close \in {<<>>, <<"]">>},
        tail \in {<<>>} \cup {<<":">> \o p : p \in PortTexts}}

AddrInputs == ComposedAddrs \cup StringsUpTo(ShortAlphabet, MaxShort)

\* ------------------------------------------------- nameserver address parsers

\* The zero Nameserver returned beside an error.
ZeroNameserver == [IP |-> NilIP, Port |-> 0]

ParseOk(ip, port) == [err |-> "", ns |-> [IP |-> ip, Port |-> port]]

ParseFail(kind) == [err |-> kind, ns |-> ZeroNameserver]

\* The error kinds, by the message each is built from.
ErrAddressFormat == "invalid nameserver address format"

ErrIPv6AddressFormat == "invalid IPv6 namerserver address format"

ErrIPAddress == "invalid nameserver IP address"

ErrPortNotNumber == "nameserver port is not a number"

ErrPortOutOfRange == "nameserver port out of range"

ErrDnsAddress == "invalid nameserver address"

ErrDnsPort == "invalid port"

\* The range check on the converted port.
PortInRange(port) == ~(port < 0 \/ port > MaxPort)

\* uint16(port) of the Go int that Atoi returned: its low 16 bits.
Uint16(port) == port.low16

\* The common end of both current parsers: the host must be an IP literal, the
\* port substring (default "53") an integer of the port range.
HostAndPortToNameserver(hostStr, portStr) ==
    LET ip == ParseIP(hostStr)
    IN  IF ip = NilIP THEN ParseFail(ErrIPAddress)
        ELSE LET p    == IF portStr = <<>> THEN Itoa(DefaultPort) ELSE portStr
                 port == Atoi(p)
             IN  IF ~port.ok THEN ParseFail(ErrPortNotNumber)
                 ELSE IF ~PortInRange(port.val) THEN ParseFail(ErrPortOutOfRange)
                 ELSE ParseOk(ip, Uint16(port))

\* A faulty variant of ReachesBracketTrim: the brackets are looked for first, on
\* every input.
ReachesBracketTrim_Always(addr) == TRUE

\* The inputs on which a current parser comes to its bracket-stripping
\* branch: there is a colon, the split failed, and there is a "]".
ReachesBracketTrim(addr) ==
    /\ Contains(addr, ":")
    /\ ~SplitHostPort(addr).ok
    /\ Contains(addr, "]")

\* Go's s[k] and s[lo:hi], counted from zero, are in range.
IndexInRange(s, k) == 0 <= k /\ k < Len(s)

SliceInRange(s, lo, hi) == 0 <= lo /\ lo <= hi /\ hi <= Len(s)

\* The index expressions of the bracket-stripping branch, as far as the
\* branch evaluates them: addr[0]; addr[len(addr)-1] when addr[0] is "[";
\* addr[1 : len(addr)-1] when both brackets are there.
BracketTrimInRange(addr) ==
    /\ IndexInRange(addr, 0)
    /\ addr[1] = "[" =>
            /\ IndexInRange(addr, Len(addr) - 1)
            /\ addr[Len(addr)] = "]" => SliceInRange(addr, 1, Len(addr) - 1)

\* A faulty variant of ParseNameserverAddr: a failed split is final, the brackets of an
\* address without a port are never trimmed.
ParseNameserverAddr_NoBracketTrim(addr) ==
    IF ~Contains(addr, ":") THEN HostAndPortToNameserver(addr, <<>>)
    ELSE LET sp == SplitHostPort(addr)
         IN  IF sp.ok THEN HostAndPortToNameserver(sp.host, sp.port)
             ELSE ParseFail(ErrAddressFormat)

\* A faulty variant of ParseNameserverAddr: when the split fails the whole string is
\* tried as the host, so that a bare IPv6 literal is accepted.
ParseNameserverAddr_BareIPv6(addr) ==
    IF ~Contains(addr, ":") THEN HostAndPortToNameserver(addr, <<>>)
    ELSE LET sp == SplitHostPort(addr)
         IN  IF sp.ok THEN HostAndPortToNameserver(sp.host, sp.port)
             ELSE IF ~Contains(addr, "]") THEN HostAndPortToNameserver(addr, <<>>)
             ELSE IF addr[1] = "[" /\ addr[Len(addr)] = "]"
             THEN HostAndPortToNameserver(SubSeq(addr, 2, Len(addr) - 1), sp.port)
             ELSE ParseFail(ErrIPv6AddressFormat)

\* ParseNameserverAddr: the exported parser the module's resolve calls.
ParseNameserverAddr(addr) ==
    IF ~Contains(addr, ":") THEN HostAndPortToNameserver(addr, <<>>)
    ELSE LET sp == SplitHostPort(addr)
         IN  IF sp.ok THEN HostAndPortToNameserver(sp.host, sp.port)
             ELSE IF ~Contains(addr, "]") THEN ParseFail(ErrAddressFormat)
             ELSE IF addr[1] = "[" /\ addr[Len(addr)] = "]"
             THEN HostAndPortToNameserver(SubSeq(addr, 2, Len(addr) - 1), sp.port)
             ELSE ParseFail(ErrIPv6AddressFormat)

\* parseHostAndPort: the split of the unexported parser.  Result: [ok, host,
\* port]; after a failed split port is the empty string the split left in it.
parseHostAndPort(addr) ==
    IF Contains(addr, ":")
    THEN LET sp == SplitHostPort(addr)
         IN  IF sp.ok THEN [ok |-> TRUE, host |-> sp.host, port |-> sp.port]
             ELSE IF Contains(addr, "]") /\ addr[1] = "[" /\ addr[Len(addr)] = "]"
             THEN [ok |-> TRUE, host |-> SubSeq(addr, 2, Len(addr) - 1), port |-> sp.port]
             ELSE [ok |-> FALSE, host |-> <<>>, port |-> <<>>]
    ELSE [ok |-> TRUE, host |-> addr, port |-> Itoa(DefaultPort)]

\* parseNameserverAddr: the unexported parser.
parseNameserverAddr(addr) ==
    LET hp == parseHostAndPort(addr)
    IN  IF ~hp.ok THEN ParseFail(ErrAddressFormat)
        ELSE HostAndPortToNameserver(hp.host, hp.port)

\* resolveOptions.ParseNameserver of the dns/ package: the split must succeed
\* when there is a colon; the port is converted without a range check and the
\* host goes through net.ParseIP without a nil check.
ParseNameserver(nameserver) ==
    LET sp      == SplitHostPort(nameserver)
        colon   == Contains(nameserver, ":")
        hostStr == IF colon THEN sp.host ELSE nameserver
        portStr == IF colon THEN sp.port ELSE Itoa(DefaultPort)
        port    == Atoi(portStr)
    IN  IF colon /\ ~sp.ok THEN ParseFail(ErrDnsAddress)
        ELSE IF ~port.ok THEN ParseFail(ErrDnsPort)
        ELSE ParseOk(ParseIP(hostStr), Uint16(port))

\* ------------------------------------------------------ record-type model

\* The record types of the dns/ package with their values, which are the
\* protocol codes.
DnsRecordTypes ==
    { [name |-> <<"A">>, code |-> 1],
      [name |-> <<"A", "A", "A", "A">>, code |-> 28],
      [name |-> <<"C", "N", "A", "M", "E">>, code |-> 5],
      [name |-> <<"N", "S">>, code |-> 2],
      [name |-> <<"P", "T", "R">>, code |-> 12] }

\* The record types of the current package: those of the dns/ package and NAPTR.
RecordTypes == DnsRecordTypes \cup {[name |-> <<"N", "A", "P", "T", "R">>, code |-> 35]}

\* The generated name lookup over a table: [ok, val]; val is 0 on failure.
LookupRecordType(table, s) ==
    IF \E t \in table : t.name = s
    THEN [ok |-> TRUE, val |-> (CHOOSE t \in table : t.name = s).code]
    ELSE [ok |-> FALSE, val |-> 0]

\* A faulty variant of RecordTypeString: a name that is not in the table gives the
\* first type, A, instead of an error.
RecordTypeString_DefaultA(s) ==
    IF \E t \in RecordTypes : t.name = s THEN LookupRecordType(RecordTypes, s)
    ELSE [ok |-> TRUE, val |-> 1]

RecordTypeString(s) == LookupRecordType(RecordTypes, s)

\* The generated String method over a table: the name of the value, and
\* RecordType(n) for a value n that has none.
RecordTypeName(table, v) ==
    IF \E t \in table : t.code = v
    THEN (CHOOSE t \in table : t.code = v).name
    ELSE <<"R", "e", "c", "o", "r", "d", "T", "y", "p", "e", "(">> \o Itoa(v) \o <<")">>

DnsRecordTypeString(s) == LookupRecordType(DnsRecordTypes, s)

\* ------------------------------------------------------------ the errors

\* An error value: the sentinel or type it wraps (kind), the message it was
\* built with, and for a DNSError the response code and its classification.
NoError == [kind |-> "nil", msg |-> "", rcode |-> 0, name |-> "", cause |-> ""]

Error(kind, msg) == [kind |-> kind, msg |-> msg, rcode |-> 0, name |-> "", cause |-> ""]

\* The error of a failed exchange or lookup: the message put before the
\* cause (empty when the cause is returned as it is) and the cause it wraps.
TransportError(msg, cause) ==
    [kind |-> "transport", msg |-> msg, rcode |-> 0, name |-> "", cause |-> cause]

\* What makes an exchange or a lookup fail.
ContextCanceled == "context canceled"

TransportCauses == {"i/o timeout", "connection refused", "no route to host", ContextCanceled}

\* The classification of a non-success response code.
RcodeName(rcode) == IF rcode = RcodeNameError THEN "NonExistingDomain" ELSE "OtherDNSFailure"

newDNSError(rcode, msg) ==
    [kind |-> "DNSError", msg |-> msg, rcode |-> rcode, name |-> RcodeName(rcode), cause |-> ""]

\* ------------------------------------------------------- resource records

\* A resource record of an answer section.  The Go type of the record is
\* `type`; each type reads its own fields, the others stay zero.
RR(type, ip, name) ==
    [type |-> type, ip |-> ip, name |-> name, Order |-> 0, Preference |-> 0,
     Flags |-> <<>>, Service |-> <<>>, Regexp |-> <<>>]

NAPTR(order, preference, flags, service, regexp, replacement) ==
    [type |-> "NAPTR", ip |-> <<>>, name |-> replacement, Order |-> order,
     Preference |-> preference, Flags |-> flags, Service |-> service, Regexp |-> regexp]

\* The records the modelled nameserver answers with.
AnswerRecords ==
    { RR("A", <<203, 0, 113, 1>>, <<>>),
      RR("A", <<203, 0, 113, 11>>, <<>>),
      RR("AAAA", <<253, 0, 0, 0, 0, 0, 0, 0, 0, 0, 0, 0, 0, 0, 0, 1>>, <<>>),
      RR("AAAA", V4Mapped(<<203, 0, 113, 1>>), <<>>),
      RR("CNAME", <<>>, <<"c", ".">>),
      RR("NS", <<>>, <<"n", ".">>),
      RR("PTR", <<>>, <<"p", ".">>),
      NAPTR(100, 10, <<"U">>, <<"E", "2", "U", "+", "s", "i", "p">>, <<"!", "^", ".", "*", "$", "!">>, <<".">>),
      NAPTR(0, 65535, <<>>, <<>>, <<>>, <<"r", " ", ".">>),
      RR("MX", <<>>, <<"m", ".">>) }

\* All answer sections of at most n records.
RECURSIVE AnswersUpTo(_)
AnswersUpTo(n) ==
    IF n = 0 THEN {<<>>}
    ELSE LET shorter == AnswersUpTo(n - 1)
         IN  shorter \cup {Append(a, r) : a \in {b \in shorter : Len(b) = n - 1}, r \in AnswerRecords}

\* The response codes the modelled nameserver answers with: success, server
\* failure, name error.
Rcodes == {RcodeSuccess, 2, RcodeNameError}

Responses == [Rcode : Rcodes, Answer : AnswersUpTo(MaxAnswers)]

\* --------------------------------------------------------- the clients

\* A []string: the nil slice or a list.
NilSlice == [isNil |-> TRUE, items |-> <<>>]

\* append(ips, s): never nil.
AppendTo(ips, s) == [isNil |-> FALSE, items |-> Append(ips.items, s)]

Quote == "\""

\* A faulty variant of fmtNAPTRAnswer: an empty text field is left out instead of
\* written as "".
fmtNAPTRAnswer_BareEmpty(answer) ==
    LET q(f) == IF f = <<>> THEN <<" ">> ELSE <<Quote>> \o f \o <<Quote, " ">>
    IN  Itoa(answer.Order) \o <<" ">> \o
        Itoa(answer.Preference) \o <<" ">> \o
        q(answer.Flags) \o q(answer.Service) \o q(answer.Regexp) \o
        answer.name

\* fmtNAPTRAnswer: the NAPTR fields in one string.
fmtNAPTRAnswer(answer) ==
    Itoa(answer.Order) \o <<" ">> \o
    Itoa(answer.Preference) \o <<" ">> \o
    <<Quote>> \o answer.Flags \o <<Quote, " ">> \o
    <<Quote>> \o answer.Service \o <<Quote, " ">> \o
    <<Quote>> \o answer.Regexp \o <<Quote, " ">> \o
    answer.name

\* Nameserver.Addr(): the dial string.
Addr(n) == IPString(n.IP) \o <<":">> \o Itoa(n.Port)

\* The question SetQuestion puts in the message.
SetQuestion(z, t) == [Name |-> z, Qtype |-> t]

\* What a call returns: ([]string, error).
Return(ips, err) == [ips |-> ips, err |-> err]

ErrUnsupportedRecordType == "ErrUnsupportedRecordType"

\* A faulty variant of DecodeAnswers: a string already in the list is not added again.
RECURSIVE DecodeAnswers_Dedup(_, _)
DecodeAnswers_Dedup(answer, ips) ==
    IF answer = <<>> THEN Return(ips, NoError)
    ELSE LET a == Head(answer)
             t == IF a.type = "NAPTR" THEN fmtNAPTRAnswer(a) ELSE IPString(a.ip)
         IN  IF a.type \in {"A", "AAAA", "NAPTR"}
             THEN DecodeAnswers_Dedup(Tail(answer),
                     IF \E i \in 1..Len(ips.items) : ips.items[i] = t THEN ips ELSE AppendTo(ips, t))
             ELSE Return(NilSlice, Error(ErrUnsupportedRecordType, "unhandled DNS answer type"))

\* A faulty variant of DecodeAnswers: the strings decoded before an unhandled record are
\* returned beside the error.
RECURSIVE DecodeAnswers_Partial(_, _)
DecodeAnswers_Partial(answer, ips) ==
    IF answer = <<>> THEN Return(ips, NoError)
    ELSE LET a == Head(answer)
             t == IF a.type = "NAPTR" THEN fmtNAPTRAnswer(a) ELSE IPString(a.ip)
         IN  IF a.type \in {"A", "AAAA", "NAPTR"}
             THEN DecodeAnswers_Partial(Tail(answer), AppendTo(ips, t))
             ELSE Return(ips, Error(ErrUnsupportedRecordType, "unhandled DNS answer type"))

\* A faulty variant of DecodeAnswers: for an AAAA record the name field is
\* written instead of the address.
RECURSIVE DecodeAnswers_NameField(_, _)
DecodeAnswers_NameField(answer, ips) ==
    IF answer = <<>> THEN Return(ips, NoError)
    ELSE LET a == Head(answer)
         IN  IF a.type = "A" THEN DecodeAnswers_NameField(Tail(answer), AppendTo(ips, IPString(a.ip)))
             ELSE IF a.type = "AAAA" THEN DecodeAnswers_NameField(Tail(answer), AppendTo(ips, a.name))
             ELSE IF a.type = "NAPTR" THEN DecodeAnswers_NameField(Tail(answer), AppendTo(ips, fmtNAPTRAnswer(a)))
             ELSE Return(NilSlice, Error(ErrUnsupportedRecordType, "unhandled DNS answer type"))

\* The answer loop of Client.Resolve: A, AAAA and NAPTR records are decoded in
\* order; the first record of another type ends the call with an error.
RECURSIVE DecodeAnswers(_, _)
DecodeAnswers(answer, ips) ==
    IF answer = <<>> THEN Return(ips, NoError)
    ELSE LET a == Head(answer)
         IN  IF a.type = "A" THEN DecodeAnswers(Tail(answer), AppendTo(ips, IPString(a.ip)))
             ELSE IF a.type = "AAAA" THEN DecodeAnswers(Tail(answer), AppendTo(ips, IPString(a.ip)))
             ELSE IF a.type = "NAPTR" THEN DecodeAnswers(Tail(answer), AppendTo(ips, fmtNAPTRAnswer(a)))
             ELSE Return(NilSlice, Error(ErrUnsupportedRecordType, "unhandled DNS answer type"))

\* A faulty variant of HandleResponse: the answers are decoded first and the status is
\* looked at only when there are none.
HandleResponse_AnswersFirst(response) ==
    IF response.Answer # <<>> THEN DecodeAnswers(response.Answer, NilSlice)
    ELSE IF response.Rcode # RcodeSuccess
    THEN Return(NilSlice, newDNSError(response.Rcode, "DNS query failed"))
    ELSE Return(NilSlice, NoError)

\* A faulty variant of HandleResponse: a success without answers is reported as a
\* domain that does not exist.
HandleResponse_EmptyIsNameError(response) ==
    IF response.Rcode # RcodeSuccess
    THEN Return(NilSlice, newDNSError(response.Rcode, "DNS query failed"))
    ELSE IF response.Answer = <<>>
    THEN Return(NilSlice, newDNSError(RcodeNameError, "DNS query failed"))
    ELSE DecodeAnswers(response.Answer, NilSlice)

\* Client.Resolve from the response on: the status check, then the answers.
HandleResponse(response) ==
    IF response.Rcode # RcodeSuccess
    THEN Return(NilSlice, newDNSError(response.Rcode, "DNS query failed"))
    ELSE DecodeAnswers(response.Answer, NilSlice)

\* The answer loop of the dns/ package's Client.Resolve: A, AAAA, CNAME, NS and
\* PTR records are decoded.
RECURSIVE DnsDecodeAnswers(_, _)
DnsDecodeAnswers(answer, ips) ==
    IF answer = <<>> THEN Return(ips, NoError)
    ELSE LET a == Head(answer)
         IN  IF a.type \in {"A", "AAAA"} THEN DnsDecodeAnswers(Tail(answer), AppendTo(ips, IPString(a.ip)))
             ELSE IF a.type \in {"CNAME", "NS", "PTR"} THEN DnsDecodeAnswers(Tail(answer), AppendTo(ips, a.name))
             ELSE Return(NilSlice, Error("plain", "unhandled DNS answer type"))

\* The dns/ package's Client.Resolve from the response on: the response code
\* is not looked at.
DnsHandleResponse(response) == DnsDecodeAnswers(response.Answer, NilSlice)

\* The type the dns/ package's Client.Resolve asks for: the switch sets it for
\* A and AAAA and leaves it zero otherwise.
DnsConcreteType(rt) == IF rt = 1 THEN 1 ELSE IF rt = 28 THEN 28 ELSE 0

\* The name Client.Resolve asks for.
QuestionName(query) == query \o <<".">>

\* ------------------------------------------------------- client inputs

\* The domains resolved: without and with a trailing dot, and the empty one.
Queries ==
    { <<"k", "6", ".", "i", "o">>,
      <<"k", "6", ".", "i", "o", ".">> }

\* The record-type names asked for: the supported ones and some that are not.
TypeNameAlphabet == {"A", "a", "N", "S"}

RecordTypeNames ==
    {t.name : t \in RecordTypes}
        \cup StringsUpTo(TypeNameAlphabet, MaxTypeName)
        \cup { <<"M", "X">>, <<"A", "A", "A">>, <<"A", "A", "A", "A", "A">>, <<"a", "a", "a", "a">>,
               <<"A", " ">>, <<"p", "t", "r">>, <<"N", "a", "p", "t", "r">>, <<"1">>, <<"2", "8">> }

\* The nameservers resolved against, as the parsers return them.
Nameservers ==
    { ParseNameserverAddr(<<"2", "0", "3", ".", "0", ".", "1", "1", "3", ".", "1">>).ns,
      ParseNameserverAddr(<<"[", "f", "d", "0", "0", ":", ":", "1", "]", ":", "5", "3", "5", "3">>).ns }

\* ---------------------------------------------------------------- state

VARIABLES
    addr,        \* the address string handed to a nameserver parser
    parser,      \* which parser was applied to it ("none": not yet)
    parsed,      \* what that parser returned: [err, ns]
    client,      \* whose Resolve runs: "Client", "DnsClient" (dns/ package), "none"
    pc,          \* where that call is: "idle", "exchanging", "returned"
    query,       \* its arguments
    recordType,
    nameserver,
    question,    \* the question of the outbound message
    dial,        \* the address the message is sent to
    response,    \* what the exchange returned: [kind, Rcode, Answer]
    ret,         \* what the call returned: [ips, err]
    exchanges    \* how many exchanges the call has started

VARIABLES
    pkg,         \* the package of the module instance: "current" or "dns"
    vuState,     \* the VU's state: "nil" in the init context, then "active"
    ctxDone,     \* whether the VU's context is done
    samples,     \* the samples channel: the samples sent and not yet taken
    dnsClient,   \* the Client of the module instance
    calls        \* the calls of the module's resolve and lookup, by number

parseVars == <<addr, parser, parsed>>

clientVars == <<client, pc, query, recordType, nameserver, question, dial, response, ret, exchanges>>

moduleVars == <<pkg, vuState, ctxDone, samples, dnsClient, calls>>

vars == <<addr, parser, parsed, client, pc, query, recordType, nameserver, question, dial,
          response, ret, exchanges, pkg, vuState, ctxDone, samples, dnsClient, calls>>

NoQuestion == SetQuestion(<<>>, 0)

NoResponse == [kind |-> "none", Rcode |-> 0, Answer |-> <<>>, err |-> ""]

\* The exchange failed with the error c: no response.
TransportFailure(c) == [kind |-> "error", Rcode |-> 0, Answer |-> <<>>, err |-> c]

Received(r) == [kind |-> "response", Rcode |-> r.Rcode, Answer |-> r.Answer, err |-> ""]

\* ------------------------------------------------------------ the modules

\* A JS value handed to the module: one that exports to a Go string, or one
\* that does not.
Str(s) == [isString |-> TRUE, str |-> s]

NotAString == [isString |-> FALSE, str |-> <<>>]

\* promises.New: the promise with the number of times it was settled.
NewPromise == [state |-> "pending", value |-> NilSlice, err |-> NoError, settles |-> 0]

NoPromise == [state |-> "none", value |-> NilSlice, err |-> NoError, settles |-> 0]

\* resolve(v) and reject(e) on a promise: only a pending promise changes state.
resolve(p, v) ==
    IF p.state = "pending"
    THEN [p EXCEPT !.state = "resolved", !.value = v, !.settles = @ + 1]
    ELSE [p EXCEPT !.settles = @ + 1]

reject(p, e) ==
    IF p.state = "pending"
    THEN [p EXCEPT !.state = "rejected", !.err = e, !.settles = @ + 1]
    ELSE [p EXCEPT !.settles = @ + 1]

\* What the OS resolver returned to a Lookup: nothing yet, addresses, an error.
NoLookup == [kind |-> "none", addrs |-> <<>>, err |-> ""]

LookupFailure(c) == [kind |-> "error", addrs |-> <<>>, err |-> c]

LookedUp(addrs) == [kind |-> "addrs", addrs |-> addrs, err |-> ""]

\* One call of the module's resolve or lookup: its arguments, the promise it
\* returned, where its goroutine is, and what the client call in it did.
NoCall ==
    [op |-> "none", pc |-> "idle",
     query |-> NotAString, recordType |-> NotAString, nameserverAddr |-> NotAString,
     hostname |-> NotAString,
     promise |-> NoPromise,
     nameserver |-> ZeroNameserver, question |-> NoQuestion, dial |-> <<>>, exchanges |-> 0,
     response |-> NoResponse, lookup |-> NoLookup, ret |-> Return(NilSlice, NoError),
     ctxAtReturn |-> FALSE, pushed |-> 0]

\* NewDNSClient: the client of a module instance, a dns.Client with no setting.
NewDNSClient == [client |-> "dns.Client{}"]

\* The nameserver parser of each package's module.
ParseFor(p, s) == IF p = "dns" THEN ParseNameserver(s) ELSE ParseNameserverAddr(s)

\* The error the module rejects with when the nameserver argument does not
\* export: a string in the current package, an options object in dns/.
NameserverExportError(p) ==
    IF p = "dns" THEN Error("plain", "options must be a ResolveOptions object")
    ELSE Error("plain", "nameserver must be a string")

\* Client.Resolve of each package up to the exchange: [ok, err, question].
ClientQuestion(p, q, rt) ==
    IF p = "dns"
    THEN LET rtv == DnsRecordTypeString(rt)
         IN  IF ~rtv.ok
             THEN [ok |-> FALSE, err |-> Error("enumer", "invalid record type"), question |-> NoQuestion]
             ELSE [ok |-> TRUE, err |-> NoError,
                   question |-> SetQuestion(QuestionName(q), DnsConcreteType(rtv.val))]
    ELSE LET concreteType == RecordTypeString(rt)
         IN  IF ~concreteType.ok
             THEN [ok |-> FALSE, err |-> Error(ErrUnsupportedRecordType, "invalid DNS record type"),
                   question |-> NoQuestion]
             ELSE [ok |-> TRUE, err |-> NoError,
                   question |-> SetQuestion(QuestionName(q), concreteType.val)]

\* Client.Resolve of each package from the response on.
ClientHandle(p, r) == IF p = "dns" THEN DnsHandleResponse(r) ELSE HandleResponse(r)

\* The error Client.Resolve returns for a failed exchange.
ClientExchangeError(p, c) ==
    IF p = "dns" THEN TransportError("", c)
    ELSE TransportError("querying the DNS nameserver failed", c)

\* The error Client.Lookup returns for a failed lookup.
ClientLookupError(p, c) ==
    IF p = "dns" THEN TransportError("", c) ELSE TransportError("lookup failed", c)

\* A metric sample with its tags.
Sample(metric, value, call) ==
    [metric |-> metric, value |-> value, query |-> call.query.str, recordType |-> call.recordType.str,
     nameserver |-> call.dial, host |-> call.hostname.str]

\* The two samples a call emits, in order: the counter, then the duration.
SampleOf(call, n) ==
    IF call.op = "resolve"
    THEN (IF n = 1 THEN Sample("dns_resolutions", "1", call)
          ELSE Sample("dns_resolution_duration", "elapsed", call))
    ELSE (IF n = 1 THEN Sample("dns_lookups", "1", call)
          ELSE Sample("dns_lookup_duration", "elapsed", call))

\* ---------------------------------------------------------- module inputs

K6io == <<"k", "6", ".", "i", "o">>

Ns4 == <<"2", "0", "3", ".", "0", ".", "1", "1", "3", ".", "1">>

Ns6Port == <<"[", "f", "d", "0", "0", ":", ":", "1", "]", ":", "5", "3", "5", "3">>

NotAnIP == <<"n", "o", "t", "-", "a", "n", "-", "i", "p">>

BareIPv6 == <<"f", "d", "0", "0", ":", ":", "1">>

BigPort == <<"2", "0", "3", ".", "0", ".", "1", "1", "3", ".", "1", ":", "9", "9", "9", "9", "9", "9">>

NoDigitPort == <<"2", "0", "3", ".", "0", ".", "1", "1", "3", ".", "1", ":", "d", "n", "s">>

ResolveArgsOf(q, rt, ns) == [query |-> q, recordType |-> rt, nameserverAddr |-> ns]

\* The arguments resolve is called with.
ResolveArgs ==
    { ResolveArgsOf(Str(K6io), Str(rt), Str(ns)) :
        rt \in { <<"A">>, <<"N", "A", "P", "T", "R">>, <<"C", "N", "A", "M", "E">>, <<"M", "X">> },
        ns \in { Ns4, Ns6Port, NotAnIP, BareIPv6, BigPort, NoDigitPort, <<>> } }
    \cup { ResolveArgsOf(NotAString, Str(<<"A">>), Str(Ns4)),
           ResolveArgsOf(NotAString, NotAString, NotAString),
           ResolveArgsOf(Str(K6io), NotAString, Str(NotAnIP)),
           ResolveArgsOf(Str(K6io), Str(<<"A">>), NotAString),
           ResolveArgsOf(Str(K6io), Str(<<"M", "X">>), NotAString) }

\* The hostnames lookup is called with.
Hostnames == {Str(K6io), Str(<<>>), NotAString}

\* What the OS resolver answers a lookup with.
LookupResults ==
    { << <<"1", "9", "2", ".", "0", ".", "2", ".", "1">> >>,
      << <<"1", "9", "2", ".", "0", ".", "2", ".", "1">>, <<"2", "0", "0", "1", ":", "d", "b", "8", ":", ":", "1">> >>,
      << <<"2", "0", "0", "1", ":", "d", "b", "8", ":", ":", "1">>, <<"1", "9", "2", ".", "0", ".", "2", ".", "1">> >> }

\* What the nameserver answers a module call with.
ModuleResponses ==
    { [Rcode |-> RcodeSuccess, Answer |-> <<>>],
      [Rcode |-> RcodeSuccess, Answer |-> <<RR("A", <<203, 0, 113, 1>>, <<>>), RR("A", <<203, 0, 113, 11>>, <<>>)>>],
      [Rcode |-> RcodeSuccess, Answer |-> <<RR("CNAME", <<>>, <<"c", ".">>)>>],
      [Rcode |-> RcodeSuccess, Answer |-> <<RR("A", <<203, 0, 113, 1>>, <<>>), RR("MX", <<>>, <<"m", ".">>)>>],
      [Rcode |-> RcodeNameError, Answer |-> <<>>] }

\* The inputs of the calls that run side by side.
ConcurrentArgs ==
    { ResolveArgsOf(Str(K6io), Str(<<"A">>), Str(Ns4)),
      ResolveArgsOf(Str(K6io), Str(<<"M", "X">>), Str(Ns6Port)) }

ConcurrentHostnames == {Str(K6io)}

ConcurrentLookupResults == { << <<"1", "9", "2", ".", "0", ".", "2", ".", "1">> >> }

ConcurrentResponses ==
    { [Rcode |-> RcodeSuccess, Answer |-> <<RR("A", <<203, 0, 113, 1>>, <<>>)>>],
      [Rcode |-> RcodeNameError, Answer |-> <<>>] }

ConcurrentCauses == {"i/o timeout", ContextCanceled}

\* No module instance runs.
ModuleIdle ==
    /\ pkg = "current"
    /\ vuState = "nil"
    /\ ctxDone = FALSE
    /\ samples = <<>>
    /\ dnsClient = NewDNSClient
    /\ calls = [i \in 1..MaxCalls |-> NoCall]

ParseIdle ==
    /\ addr = <<>>
    /\ parser = "none"
    /\ parsed = ParseFail("")

ClientIdle ==
    /\ client = "none"
    /\ pc = "idle"
    /\ query = <<>>
    /\ recordType = <<>>
    /\ nameserver = ZeroNameserver
    /\ question = NoQuestion
    /\ dial = <<>>
    /\ response = NoResponse
    /\ ret = Return(NilSlice, NoError)
    /\ exchanges = 0

\* --------------------------------------------- the parsers on every input

InitParse == ParseIdle /\ ClientIdle /\ ModuleIdle

\* A call of the exported parser of the current package.
CallParseNameserverAddr ==
    \E a \in AddrInputs :
        /\ parser = "none"
        /\ addr' = a
        /\ parser' = "ParseNameserverAddr"
        /\ parsed' = ParseNameserverAddr(a)
        /\ UNCHANGED <<clientVars, moduleVars>>

\* A call of the unexported parser of the current package.
CallUnexportedParseNameserverAddr ==
    \E a \in AddrInputs :
        /\ parser = "none"
        /\ addr' = a
        /\ parser' = "parseNameserverAddr"
        /\ parsed' = parseNameserverAddr(a)
        /\ UNCHANGED <<clientVars, moduleVars>>

\* A call of the parser of the dns/ package, on the nameserver option.
CallParseNameserver ==
    \E a \in AddrInputs :
        /\ parser = "none"
        /\ addr' = a
        /\ parser' = "ParseNameserver"
        /\ parsed' = ParseNameserver(a)
        /\ UNCHANGED <<clientVars, moduleVars>>

NextParse ==
    \/ CallParseNameserverAddr
    \/ CallUnexportedParseNameserverAddr
    \/ CallParseNameserver

SpecParse == InitParse /\ [][NextParse]_vars

\* ------------------------------------------------------ the clients' calls

Init == ParseIdle /\ ClientIdle /\ ModuleIdle

\* A faulty variant of ResolveCall: the message is built and sent whatever the
\* lookup of the record-type name gave, with the zero type when it failed.
ResolveCall_ExchangeFirst ==
    \E q \in Queries, rt \in RecordTypeNames, ns \in Nameservers :
        /\ pc = "idle"
        /\ client' = "Client"
        /\ query' = q
        /\ recordType' = rt
        /\ nameserver' = ns
        /\ pc' = "exchanging"
        /\ question' = SetQuestion(QuestionName(q), RecordTypeString(rt).val)
        /\ dial' = Addr(ns)
        /\ exchanges' = exchanges + 1
        /\ UNCHANGED <<ret, response, parseVars, moduleVars>>

\* Client.Resolve up to the exchange: an unsupported record-type name ends the
\* call; otherwise the question is set and the message sent to the nameserver.
ResolveCall ==
    \E q \in Queries, rt \in RecordTypeNames, ns \in Nameservers :
        /\ pc = "idle"
        /\ client' = "Client"
        /\ query' = q
        /\ recordType' = rt
        /\ nameserver' = ns
        /\ LET concreteType == RecordTypeString(rt)
           IN  IF ~concreteType.ok
               THEN /\ pc' = "returned"
                    /\ ret' = Return(NilSlice, Error(ErrUnsupportedRecordType, "invalid DNS record type"))
                    /\ UNCHANGED <<question, dial, exchanges>>
               ELSE /\ pc' = "exchanging"
                    /\ question' = SetQuestion(QuestionName(q), concreteType.val)
                    /\ dial' = Addr(ns)
                    /\ exchanges' = exchanges + 1
                    /\ UNCHANGED ret
        /\ UNCHANGED <<response, parseVars, moduleVars>>

\* A faulty variant of ExchangeFails: after a first failure the message is sent
\* once more.
ExchangeFails_Retry ==
    \E c \in TransportCauses :
        /\ pc = "exchanging"
        /\ client = "Client"
        /\ IF exchanges < 2
           THEN /\ exchanges' = exchanges + 1
                /\ UNCHANGED <<pc, response, ret>>
           ELSE /\ response' = TransportFailure(c)
                /\ ret' = Return(NilSlice, TransportError("querying the DNS nameserver failed", c))
                /\ pc' = "returned"
                /\ UNCHANGED exchanges
        /\ UNCHANGED <<client, query, recordType, nameserver, question, dial, parseVars, moduleVars>>

\* The exchange fails (no route, timeout, refused, cancelled): the call
\* returns the wrapped cause.
ExchangeFails ==
    \E c \in TransportCauses :
        /\ pc = "exchanging"
        /\ client = "Client"
        /\ response' = TransportFailure(c)
        /\ ret' = Return(NilSlice, TransportError("querying the DNS nameserver failed", c))
        /\ pc' = "returned"
        /\ UNCHANGED <<client, query, recordType, nameserver, question, dial, exchanges, parseVars, moduleVars>>

\* The nameserver answers: the call checks the status, decodes and returns.
ExchangeReplies ==
    \E r \in Responses :
        /\ pc = "exchanging"
        /\ client = "Client"
        /\ response' = Received(r)
        /\ ret' = HandleResponse(r)
        /\ pc' = "returned"
        /\ UNCHANGED <<client, query, recordType, nameserver, question, dial, exchanges, parseVars, moduleVars>>

\* The dns/ package's Client.Resolve up to the exchange.
DnsResolveCall ==
    \E q \in Queries, rt \in RecordTypeNames, ns \in Nameservers :
        /\ pc = "idle"
        /\ client' = "DnsClient"
        /\ query' = q
        /\ recordType' = rt
        /\ nameserver' = ns
        /\ LET rtv == DnsRecordTypeString(rt)
           IN  IF ~rtv.ok
               THEN /\ pc' = "returned"
                    /\ ret' = Return(NilSlice, Error("enumer", "invalid record type"))
                    /\ UNCHANGED <<question, dial, exchanges>>
               ELSE /\ pc' = "exchanging"
                    /\ question' = SetQuestion(QuestionName(q), DnsConcreteType(rtv.val))
                    /\ dial' = Addr(ns)
                    /\ exchanges' = exchanges + 1
                    /\ UNCHANGED ret
        /\ UNCHANGED <<response, parseVars, moduleVars>>

\* The dns/ package's exchange fails: the cause is returned as it is.
DnsExchangeFails ==
    \E c \in TransportCauses :
        /\ pc = "exchanging"
        /\ client = "DnsClient"
        /\ response' = TransportFailure(c)
        /\ ret' = Return(NilSlice, TransportError("", c))
        /\ pc' = "returned"
        /\ UNCHANGED <<client, query, recordType, nameserver, question, dial, exchanges, parseVars, moduleVars>>

\* The nameserver answers the dns/ package's client.
DnsExchangeReplies ==
    \E r \in Responses :
        /\ pc = "exchanging"
        /\ client = "DnsClient"
        /\ response' = Received(r)
        /\ ret' = DnsHandleResponse(r)
        /\ pc' = "returned"
        /\ UNCHANGED <<client, query, recordType, nameserver, question, dial, exchanges, parseVars, moduleVars>>

Next ==
    \/ ResolveCall
    \/ ExchangeFails
    \/ ExchangeReplies
    \/ DnsResolveCall
    \/ DnsExchangeFails
    \/ DnsExchangeReplies

Spec == Init /\ [][Next]_vars

\* ------------------------------------------------------ the modules' calls

InitModule ==
    /\ ParseIdle
    /\ ClientIdle
    /\ pkg \in {"current", "dns"}
    /\ vuState = "nil"
    /\ ctxDone = FALSE
    /\ samples = <<>>
    /\ dnsClient = NewDNSClient
    /\ calls = [i \in 1..MaxCalls |-> NoCall]

\* Everything but the calls.
moduleRest == <<pkg, vuState, ctxDone, samples, dnsClient, parseVars, clientVars>>

\* A faulty variant of ModuleResolve: the error of the nameserver parser is dropped
\* and the goroutine is created with the Nameserver the parser returned.
ModuleResolve_IgnoreParseError(i, a) ==
    /\ calls[i].op = "none"
    /\ \A j \in 1..(i - 1) : calls[j].op # "none"
    /\ LET call == [NoCall EXCEPT !.op = "resolve", !.query = a.query, !.recordType = a.recordType,
                                  !.nameserverAddr = a.nameserverAddr]
           rejected(e) == [call EXCEPT !.pc = "returned", !.promise = reject(NewPromise, e)]
       IN  calls' = [calls EXCEPT ![i] =
                IF vuState = "nil"
                THEN rejected(Error("plain", "resolve can not be used in the init context"))
                ELSE IF ~a.query.isString THEN rejected(Error("plain", "query must be a string"))
                ELSE IF ~a.recordType.isString THEN rejected(Error("plain", "recordType must be a string"))
                ELSE IF ~a.nameserverAddr.isString THEN rejected(NameserverExportError(pkg))
                ELSE [call EXCEPT !.pc = "spawned", !.promise = NewPromise,
                                  !.nameserver = ParseFor(pkg, a.nameserverAddr.str).ns]]
    /\ UNCHANGED moduleRest

\* A faulty variant of ModuleResolve: the record-type name is validated by the
\* module itself, as soon as it is known to be a string.
ModuleResolve_TypeFirst(i, a) ==
    /\ calls[i].op = "none"
    /\ \A j \in 1..(i - 1) : calls[j].op # "none"
    /\ LET call == [NoCall EXCEPT !.op = "resolve", !.query = a.query, !.recordType = a.recordType,
                                  !.nameserverAddr = a.nameserverAddr]
           rejected(e) == [call EXCEPT !.pc = "returned", !.promise = reject(NewPromise, e)]
       IN  calls' = [calls EXCEPT ![i] =
                IF vuState = "nil"
                THEN rejected(Error("plain", "resolve can not be used in the init context"))
                ELSE IF ~a.query.isString THEN rejected(Error("plain", "query must be a string"))
                ELSE IF ~a.recordType.isString THEN rejected(Error("plain", "recordType must be a string"))
                ELSE IF ~ClientQuestion(pkg, a.query.str, a.recordType.str).ok
                THEN rejected(ClientQuestion(pkg, a.query.str, a.recordType.str).err)
                ELSE IF ~a.nameserverAddr.isString THEN rejected(NameserverExportError(pkg))
                ELSE LET p == ParseFor(pkg, a.nameserverAddr.str)
                     IN  IF p.err # "" THEN rejected(Error(p.err, ""))
                         ELSE [call EXCEPT !.pc = "spawned", !.promise = NewPromise, !.nameserver = p.ns]]
    /\ UNCHANGED moduleRest

\* ModuleInstance.Resolve, the i-th call of the module: the checks in their
\* order, each rejecting the promise and returning; when all pass, the
\* goroutine is created and the pending promise returned.
ModuleResolve(i, a) ==
    /\ calls[i].op = "none"
    /\ \A j \in 1..(i - 1) : calls[j].op # "none"
    /\ LET call == [NoCall EXCEPT !.op = "resolve", !.query = a.query, !.recordType = a.recordType,
                                  !.nameserverAddr = a.nameserverAddr]
           rejected(e) == [call EXCEPT !.pc = "returned", !.promise = reject(NewPromise, e)]
       IN  calls' = [calls EXCEPT ![i] =
                IF vuState = "nil"
                THEN rejected(Error("plain", "resolve can not be used in the init context"))
                ELSE IF ~a.query.isString THEN rejected(Error("plain", "query must be a string"))
                ELSE IF ~a.recordType.isString THEN rejected(Error("plain", "recordType must be a string"))
                ELSE IF ~a.nameserverAddr.isString THEN rejected(NameserverExportError(pkg))
                ELSE LET p == ParseFor(pkg, a.nameserverAddr.str)
                     IN  IF p.err # "" THEN rejected(Error(p.err, ""))
                         ELSE [call EXCEPT !.pc = "spawned", !.promise = NewPromise, !.nameserver = p.ns]]
    /\ UNCHANGED moduleRest

\* The goroutine of a resolve call starts: Client.Resolve up to the exchange.
\* A record-type name the client does not know ends the call and rejects the
\* promise; otherwise the question is sent to the nameserver.
GoResolve(i) ==
    /\ calls[i].op = "resolve"
    /\ calls[i].pc = "spawned"
    /\ LET c == calls[i]
           q == ClientQuestion(pkg, c.query.str, c.recordType.str)
       IN  calls' = [calls EXCEPT ![i] =
                IF ~q.ok
                THEN [c EXCEPT !.pc = "done", !.ret = Return(NilSlice, q.err),
                               !.promise = reject(c.promise, q.err)]
                ELSE [c EXCEPT !.pc = "exchanging", !.question = q.question,
                               !.dial = Addr(c.nameserver), !.exchanges = @ + 1]]
    /\ UNCHANGED moduleRest

\* A faulty variant of GoExchangeFails: a failed resolution is counted too, its
\* counter sample sent before the promise is rejected.
GoExchangeFails_CountsFailure(i, causes) ==
    \E cause \in causes :
        /\ calls[i].op = "resolve"
        /\ calls[i].pc = "exchanging"
        /\ cause = ContextCanceled => ctxDone
        /\ Len(samples) < SamplesCap
        /\ LET c == calls[i]
               e == ClientExchangeError(pkg, cause)
           IN  /\ samples' = Append(samples, SampleOf(c, 1))
               /\ calls' = [calls EXCEPT ![i] =
                    [c EXCEPT !.pc = "done", !.response = TransportFailure(cause),
                              !.ret = Return(NilSlice, e), !.promise = reject(c.promise, e),
                              !.ctxAtReturn = ctxDone, !.pushed = @ + 1]]
        /\ UNCHANGED <<pkg, vuState, ctxDone, dnsClient, parseVars, clientVars>>

\* The exchange of a resolve call fails; the context's cancellation is a
\* cause only once the context is done.  The client returns the error and the
\* goroutine rejects the promise with it.
GoExchangeFails(i, causes) ==
    \E cause \in causes :
        /\ calls[i].op = "resolve"
        /\ calls[i].pc = "exchanging"
        /\ cause = ContextCanceled => ctxDone
        /\ LET c == calls[i]
               e == ClientExchangeError(pkg, cause)
           IN  calls' = [calls EXCEPT ![i] =
                    [c EXCEPT !.pc = "done", !.response = TransportFailure(cause),
                              !.ret = Return(NilSlice, e), !.promise = reject(c.promise, e),
                              !.ctxAtReturn = ctxDone]]
        /\ UNCHANGED moduleRest

\* A faulty variant of GoExchangeReplies: the client keeps the last response it
\* received and answers every later call from it.
GoExchangeReplies_SharedCache(i, responses) ==
    \E r \in responses :
        /\ calls[i].op = "resolve"
        /\ calls[i].pc = "exchanging"
        /\ LET c == calls[i]
               out == ClientHandle(pkg, IF "last" \in DOMAIN dnsClient THEN dnsClient.last ELSE r)
           IN  calls' = [calls EXCEPT ![i] =
                    IF out.err # NoError
                    THEN [c EXCEPT !.pc = "done", !.response = Received(r), !.ret = out,
                                   !.promise = reject(c.promise, out.err), !.ctxAtReturn = ctxDone]
                    ELSE [c EXCEPT !.pc = "push1", !.response = Received(r), !.ret = out,
                                   !.ctxAtReturn = ctxDone]]
        /\ dnsClient' = [client |-> "dns.Client{}", last |-> r]
        /\ UNCHANGED <<pkg, vuState, ctxDone, samples, parseVars, clientVars>>

\* The nameserver answers a resolve call.  The client checks the status and
\* decodes; on an error the goroutine rejects the promise, otherwise it goes
\* on to emit the metrics.
GoExchangeReplies(i, responses) ==
    \E r \in responses :
        /\ calls[i].op = "resolve"
        /\ calls[i].pc = "exchanging"
        /\ LET c == calls[i]
               out == ClientHandle(pkg, r)
           IN  calls' = [calls EXCEPT ![i] =
                    IF out.err # NoError
                    THEN [c EXCEPT !.pc = "done", !.response = Received(r), !.ret = out,
                                   !.promise = reject(c.promise, out.err), !.ctxAtReturn = ctxDone]
                    ELSE [c EXCEPT !.pc = "push1", !.response = Received(r), !.ret = out,
                                   !.ctxAtReturn = ctxDone]]
        /\ UNCHANGED moduleRest

\* metrics.PushIfNotDone, its check: with the context done the sample is
\* dropped, and after the second one the promise is resolved; otherwise the
\* goroutine goes on to send the sample.
GoPushIfNotDone(i) ==
    /\ calls[i].pc \in {"push1", "push2"}
    /\ LET c == calls[i]
       IN  calls' = [calls EXCEPT ![i] =
                IF ~ctxDone THEN [c EXCEPT !.pc = IF c.pc = "push1" THEN "send1" ELSE "send2"]
                ELSE IF c.pc = "push1" THEN [c EXCEPT !.pc = "push2"]
                ELSE [c EXCEPT !.pc = "done", !.promise = resolve(c.promise, c.ret.ips)]]
    /\ UNCHANGED moduleRest

\* metrics.PushIfNotDone, its send on the samples channel, which waits for
\* room.  After the second sample the promise is resolved with the result.
GoSend(i) ==
    /\ calls[i].pc \in {"send1", "send2"}
    /\ Len(samples) < SamplesCap
    /\ LET c == calls[i]
       IN  /\ samples' = Append(samples, SampleOf(c, IF c.pc = "send1" THEN 1 ELSE 2))
           /\ calls' = [calls EXCEPT ![i] =
                IF c.pc = "send1" THEN [c EXCEPT !.pc = "push2", !.pushed = @ + 1]
                ELSE [c EXCEPT !.pc = "done", !.pushed = @ + 1,
                               !.promise = resolve(c.promise, c.ret.ips)]]
    /\ UNCHANGED <<pkg, vuState, ctxDone, dnsClient, parseVars, clientVars>>

\* A faulty variant of ModuleLookup: the VU state is not looked at.
ModuleLookup_NoStateCheck(i, h) ==
    /\ calls[i].op = "none"
    /\ \A j \in 1..(i - 1) : calls[j].op # "none"
    /\ LET call == [NoCall EXCEPT !.op = "lookup", !.hostname = h]
           rejected(e) == [call EXCEPT !.pc = "returned", !.promise = reject(NewPromise, e)]
       IN  calls' = [calls EXCEPT ![i] =
                IF ~h.isString THEN rejected(Error("plain", "hostname must be a string"))
                ELSE [call EXCEPT !.pc = "spawned", !.promise = NewPromise]]
    /\ UNCHANGED moduleRest

\* ModuleInstance.Lookup, the i-th call of the module.
ModuleLookup(i, h) ==
    /\ calls[i].op = "none"
    /\ \A j \in 1..(i - 1) : calls[j].op # "none"
    /\ LET call == [NoCall EXCEPT !.op = "lookup", !.hostname = h]
           rejected(e) == [call EXCEPT !.pc = "returned", !.promise = reject(NewPromise, e)]
       IN  calls' = [calls EXCEPT ![i] =
                IF vuState = "nil"
                THEN rejected(Error("plain", "lookup can not be used in the init context"))
                ELSE IF ~h.isString THEN rejected(Error("plain", "hostname must be a string"))
                ELSE [call EXCEPT !.pc = "spawned", !.promise = NewPromise]]
    /\ UNCHANGED moduleRest

\* The goroutine of a lookup call starts: Client.Lookup asks the OS resolver.
GoLookup(i) ==
    /\ calls[i].op = "lookup"
    /\ calls[i].pc = "spawned"
    /\ calls' = [calls EXCEPT ![i] = [@ EXCEPT !.pc = "looking"]]
    /\ UNCHANGED moduleRest

\* The OS resolver fails: the client returns the error and the goroutine
\* rejects the promise with it.
GoLookupFails(i, causes) ==
    \E cause \in causes :
        /\ calls[i].pc = "looking"
        /\ cause = ContextCanceled => ctxDone
        /\ LET c == calls[i]
               e == ClientLookupError(pkg, cause)
           IN  calls' = [calls EXCEPT ![i] =
                    [c EXCEPT !.pc = "done", !.lookup = LookupFailure(cause),
                              !.ret = Return(NilSlice, e), !.promise = reject(c.promise, e),
                              !.ctxAtReturn = ctxDone]]
        /\ UNCHANGED moduleRest

\* A faulty variant of GoLookupReturns: the client keeps the IPv4 addresses only.
GoLookupReturns_IPv4Only(i, results) ==
    \E ips \in results :
        /\ calls[i].pc = "looking"
        /\ calls' = [calls EXCEPT ![i] =
                [@ EXCEPT !.pc = "push1", !.lookup = LookedUp(ips),
                          !.ret = Return([isNil |-> FALSE,
                                          items |-> SelectSeq(ips, LAMBDA a : Contains(a, "."))], NoError),
                          !.ctxAtReturn = ctxDone]]
        /\ UNCHANGED moduleRest

\* The OS resolver returns addresses: the client returns them and the
\* goroutine goes on to emit the metrics.
GoLookupReturns(i, results) ==
    \E ips \in results :
        /\ calls[i].pc = "looking"
        /\ calls' = [calls EXCEPT ![i] =
                [@ EXCEPT !.pc = "push1", !.lookup = LookedUp(ips),
                          !.ret = Return([isNil |-> FALSE, items |-> ips], NoError),
                          !.ctxAtReturn = ctxDone]]
        /\ UNCHANGED moduleRest

\* The VU leaves the init context: its state is set from now on.
EnterVUContext ==
    /\ vuState = "nil"
    /\ vuState' = "active"
    /\ UNCHANGED <<pkg, ctxDone, samples, dnsClient, calls, parseVars, clientVars>>

\* The VU's context is cancelled.
CancelContext ==
    /\ ~ctxDone
    /\ ctxDone' = TRUE
    /\ UNCHANGED <<pkg, vuState, samples, dnsClient, calls, parseVars, clientVars>>

\* The metrics engine takes a sample from the channel.
DrainSample ==
    /\ samples # <<>>
    /\ samples' = Tail(samples)
    /\ UNCHANGED <<pkg, vuState, ctxDone, dnsClient, calls, parseVars, clientVars>>

\* One call at a time, on every input.
NextModule ==
    \/ \E a \in ResolveArgs : ModuleResolve(1, a)
    \/ GoResolve(1)
    \/ GoExchangeFails(1, TransportCauses)
    \/ GoExchangeReplies(1, ModuleResponses)
    \/ GoPushIfNotDone(1)
    \/ GoSend(1)
    \/ \E h \in Hostnames : ModuleLookup(1, h)
    \/ GoLookup(1)
    \/ GoLookupFails(1, TransportCauses)
    \/ GoLookupReturns(1, LookupResults)
    \/ EnterVUContext
    \/ CancelContext
    \/ DrainSample

SpecModule == InitModule /\ [][NextModule]_vars

\* --------------------------------------------------- calls side by side

InitConcurrent == InitModule /\ pkg = "current"

\* MaxCalls calls of one module instance, their steps interleaved.
NextConcurrent ==
    \/ \E i \in 1..MaxCalls, a \in ConcurrentArgs : ModuleResolve(i, a)
    \/ \E i \in 1..MaxCalls : GoResolve(i)
    \/ \E i \in 1..MaxCalls : GoExchangeFails(i, ConcurrentCauses)
    \/ \E i \in 1..MaxCalls : GoExchangeReplies(i, ConcurrentResponses)
    \/ \E i \in 1..MaxCalls : GoPushIfNotDone(i)
    \/ \E i \in 1..MaxCalls : GoSend(i)
    \/ \E i \in 1..MaxCalls, h \in ConcurrentHostnames : ModuleLookup(i, h)
    \/ \E i \in 1..MaxCalls : GoLookup(i)
    \/ \E i \in 1..MaxCalls : GoLookupFails(i, ConcurrentCauses)
    \/ \E i \in 1..MaxCalls : GoLookupReturns(i, ConcurrentLookupResults)
    \/ EnterVUContext
    \/ CancelContext
    \/ DrainSample

SpecConcurrent == InitConcurrent /\ [][NextConcurrent]_vars

\* ------------------------------------------- the goroutines are scheduled

\* The calls side by side, with the Go scheduler running every goroutine
\* that can take a step: a goroutine that is created starts, one that is at
\* PushIfNotDone goes through its check, and one that waits to send on the
\* samples channel sends once the channel has room often enough.  Nothing
\* is required of the nameserver, of the OS resolver, or of the receiver of
\* the samples channel: a reply may never come and the channel may never be
\* taken from.
SpecFair ==
    /\ InitConcurrent
    /\ [][NextConcurrent]_vars
    /\ \A i \in 1..MaxCalls :
            /\ WF_vars(GoResolve(i))
            /\ WF_vars(GoLookup(i))
            /\ WF_vars(GoPushIfNotDone(i))
            /\ SF_vars(GoSend(i))

\* ------------------------------------------------ claims about the parsers

CurrentParsers == {"ParseNameserverAddr", "parseNameserverAddr"}

\* A nameserver address made of a host text and a port text.
HostPort(h, p) == h \o <<":">> \o p

Bracketed(v) == <<"[">> \o v \o <<"]">>

\* C1: for every IPv4 literal h, IPv6 literal v and port p of the valid range,
\* the current parsers succeed on "h", "h:p", "[v]" and "[v]:p" with that
\* address and that port, the port being 53 where none is written ("h",
\* "[v]") or where it is empty ("h:", "[v]:").
C1_AcceptedForms ==
    parser \in CurrentParsers =>
        /\ \A k \in KnownIPv4 :
            /\ addr = k.text => parsed = ParseOk(V4Mapped(k.bytes), 53)
            /\ addr = HostPort(k.text, <<>>) => parsed = ParseOk(V4Mapped(k.bytes), 53)
            /\ \A p \in PortNumbers :
                addr = HostPort(k.text, Itoa(p)) => parsed = ParseOk(V4Mapped(k.bytes), p)
        /\ \A k \in KnownIPv6 :
            /\ addr = Bracketed(k.text) => parsed = ParseOk(k.bytes, 53)
            /\ addr = HostPort(Bracketed(k.text), <<>>) => parsed = ParseOk(k.bytes, 53)
            /\ \A p \in PortNumbers :
                addr = HostPort(Bracketed(k.text), Itoa(p)) => parsed = ParseOk(k.bytes, p)

\* C1's case: the exported parser has trimmed the brackets of "[fd00::1]" and
\* returned fd00::1 with the default port.
C1_Witness ==
    /\ parser = "ParseNameserverAddr"
    /\ addr = <<"[", "f", "d", "0", "0", ":", ":", "1", "]">>
    /\ parsed.err = ""
    /\ parsed.ns.Port = 53

\* A net.IP that holds an address: 4 or 16 bytes.
IsIPValue(ip) == Len(ip) \in {4, 16} /\ \A i \in 1..Len(ip) : ip[i] \in 0..255

\* C2: every Nameserver a parser returns without error holds an IPv4 or IPv6
\* address (never the nil IP), and a host that is no IP literal, such as
\* "not-an-ip", fails with the invalid-IP-address error.
C2_AddressIsAnIP ==
    parser # "none" =>
        /\ parsed.err = "" => IsIPValue(parsed.ns.IP)
        /\ addr \in {h \in NonIPHosts : ~Contains(h, ":")} => parsed.err = ErrIPAddress

\* The part of C2 the current parsers satisfy.
C2_CurrentParsersValidate ==
    parser \in CurrentParsers =>
        /\ parsed.err = "" => IsIPValue(parsed.ns.IP)
        /\ addr \in {h \in NonIPHosts : ~Contains(h, ":")} => parsed.err = ErrIPAddress

\* The port substring of an address as the grammar reads it: what follows the
\* last colon, unless the address has no colon or ends with its bracket; the
\* default port's text where it is absent or empty.
PortSubstring(a) ==
    LET i == LastIndexByte(a, ":")
        p == IF i = 0 \/ a[Len(a)] = "]" THEN <<>> ELSE Tail2(a, i + 1)
    IN  IF p = <<>> THEN <<"5", "3">> ELSE p

\* A decimal integer: an optional sign and at least one digit.
IsDecimal(p) ==
    LET body == IF p # <<>> /\ Head(p) \in {"+", "-"} THEN Tail(p) ELSE p
    IN  body # <<>> /\ \A i \in 1..Len(body) : IsDigit(body[i])

\* The magnitude of a decimal integer (saturating far above the port range).
DecimalMagnitude(p) ==
    DigitsValue(IF Head(p) \in {"+", "-"} THEN Tail(p) ELSE p, 0, AtoiCap)

\* A decimal integer of [0, 65535]: not negative (unless it is -0) and at most 65535.
DecimalInPortRange(p) ==
    /\ IsDecimal(p)
    /\ DecimalMagnitude(p) <= MaxPort
    /\ (Head(p) = "-" => DecimalMagnitude(p) = 0)

InvalidPortErrors == {ErrPortNotNumber, ErrDnsPort}

\* C3: a parser succeeds only if the port substring is a decimal integer of
\* [0, 65535], and the port returned is that integer (no wrap-around); a
\* non-numeric port fails with the invalid-port error and the out-of-range
\* port 999999 with the port-out-of-range error.
C3_PortExact ==
    parser # "none" =>
        /\ parsed.err = "" =>
            /\ DecimalInPortRange(PortSubstring(addr))
            /\ parsed.ns.Port = DecimalMagnitude(PortSubstring(addr))
        /\ \A k \in KnownIPv4 :
            /\ addr = HostPort(k.text, <<"a", "b", "c">>) => parsed.err \in InvalidPortErrors
            /\ addr = HostPort(k.text, <<"9", "9", "9", "9", "9", "9">>) => parsed.err = ErrPortOutOfRange

Answered == client = "Client" /\ pc = "returned" /\ response.kind = "response"

\* C5: on a non-success response code Resolve returns a DNSError carrying that
\* code and no result list, whatever the answer section holds; the name error
\* is classified NonExistingDomain, and no other outcome is.
C5_StatusBeforeAnswers ==
    /\ (Answered /\ response.Rcode # RcodeSuccess) =>
            /\ ret.ips = NilSlice
            /\ ret.err.kind = "DNSError"
            /\ ret.err.rcode = response.Rcode
    /\ (client = "Client" /\ pc = "returned") =>
            (ret.err.name = "NonExistingDomain"
                <=> (response.kind = "response" /\ response.Rcode = RcodeNameError))

\* C5's case: a name-error response that also carries an answer has been
\* turned into the NonExistingDomain error.
C5_Witness ==
    /\ Answered
    /\ response.Rcode = RcodeNameError
    /\ response.Answer # <<>>
    /\ ret.err.name = "NonExistingDomain"

\* The string the current client decodes a record to.
Decoded(rr) == IF rr.type = "NAPTR" THEN fmtNAPTRAnswer(rr) ELSE IPString(rr.ip)

TestA1 == RR("A", <<203, 0, 113, 1>>, <<>>)

TestA2 == RR("A", <<203, 0, 113, 11>>, <<>>)

\* C6: a successful Resolve returns one string per answer record, the i-th
\* being the decoding of the i-th record: order kept, nothing dropped or
\* merged; the two A records of the test domain give exactly their two
\* addresses.
C6_OnePerAnswerInOrder ==
    (Answered /\ ret.err = NoError) =>
        /\ Len(ret.ips.items) = Len(response.Answer)
        /\ \A i \in 1..Len(response.Answer) : ret.ips.items[i] = Decoded(response.Answer[i])
        /\ response.Answer = <<TestA1, TestA2>> =>
                ret.ips.items = << <<"2", "0", "3", ".", "0", ".", "1", "1", "3", ".", "1">>,
                                   <<"2", "0", "3", ".", "0", ".", "1", "1", "3", ".", "1", "1">> >>
        /\ response.Answer = <<TestA2, TestA1>> =>
                ret.ips.items = << <<"2", "0", "3", ".", "0", ".", "1", "1", "3", ".", "1", "1">>,
                                   <<"2", "0", "3", ".", "0", ".", "1", "1", "3", ".", "1">> >>

\* C6's case: the same A record twice in the answer, both returned.
C6_Witness ==
    /\ Answered
    /\ ret.err = NoError
    /\ response.Answer = <<TestA1, TestA1>>
    /\ Len(ret.ips.items) = 2

\* C7: a Resolve that fails, at whatever step and in either client, returns
\* an error and no result list.
C7_NoPartialResult ==
    pc = "returned" =>
        /\ ret.err # NoError => ret.ips = NilSlice
        /\ (response.kind = "error" \/ (client = "Client" /\ response.kind = "none")
                \/ (client = "Client" /\ response.kind = "response" /\ response.Rcode # RcodeSuccess)
                \/ \E i \in 1..Len(response.Answer) : response.Answer[i].type = "MX")
             => (ret.err # NoError /\ ret.ips = NilSlice)

\* C7's case: the first answer was decoded, the second could not be, and the
\* call failed.
C7_Witness ==
    /\ Answered
    /\ response.Rcode = RcodeSuccess
    /\ Len(response.Answer) = 2
    /\ response.Answer[1].type = "A"
    /\ response.Answer[2].type = "MX"
    /\ ret.err # NoError

\* dns.Fqdn: the name with one trailing dot added unless it ends with one.
Fqdn(name) == IF name # <<>> /\ name[Len(name)] = "." THEN name ELSE name \o <<".">>

\* C8: the name in the outbound question is the domain fully qualified with
\* exactly one trailing dot, whether or not the caller wrote one.
C8_OneTrailingDot ==
    (client = "Client" /\ pc = "exchanging") =>
        /\ question.Name = Fqdn(query)
        /\ ~(Len(question.Name) >= 2 /\ question.Name[Len(question.Name) - 1] = ".")

PointerTypes == {"CNAME", "NS", "PTR"}

\* The record kinds the specification gives a decoding for.
SpecifiedTypes == {"A", "AAAA", "NAPTR"} \cup PointerTypes

\* C9: for every CNAME, NS or PTR record of a successful response, Resolve
\* emits the record's target name as the corresponding result element.
C9_PointerTargets ==
    (/\ Answered
     /\ response.Rcode = RcodeSuccess
     /\ \A i \in 1..Len(response.Answer) : response.Answer[i].type \in SpecifiedTypes) =>
        /\ ret.err = NoError
        /\ \A i \in 1..Len(response.Answer) :
                response.Answer[i].type \in PointerTypes =>
                    (i <= Len(ret.ips.items) /\ ret.ips.items[i] = response.Answer[i].name)

\* What of C9 the dns/ package's client does: it emits the target of every
\* CNAME, NS and PTR record of a response made of records it decodes.
C9_DnsClientPointerTargets ==
    (/\ client = "DnsClient" /\ pc = "returned" /\ response.kind = "response"
     /\ \A i \in 1..Len(response.Answer) : response.Answer[i].type \in {"A", "AAAA"} \cup PointerTypes) =>
        /\ ret.err = NoError
        /\ \A i \in 1..Len(response.Answer) :
                response.Answer[i].type \in PointerTypes => ret.ips.items[i] = response.Answer[i].name

\* The fields joined by single spaces.
RECURSIVE JoinSpace(_)
JoinSpace(fields) ==
    IF Len(fields) = 1 THEN fields[1] ELSE fields[1] \o <<" ">> \o JoinSpace(Tail(fields))

Quoted(f) == <<Quote>> \o f \o <<Quote>>

\* d is the decimal rendering of n: digits only, no leading zero, of value n.
IsDecimalOf(d, n) ==
    /\ d # <<>>
    /\ \A i \in 1..Len(d) : IsDigit(d[i])
    /\ (Len(d) > 1 => d[1] # "0")
    /\ DigitsValue(d, 0, AtoiCap) = n

TestNAPTR == NAPTR(100, 10, <<"U">>, <<"E", "2", "U", "+", "s", "i", "p">>, <<"!", "^", ".", "*", "$", "!">>, <<".">>)

RecordAddress(rr) == IF Len(rr.ip) = 4 THEN V4Mapped(rr.ip) ELSE rr.ip

\* The four bytes b in dotted decimal.
Dotted(b) == Itoa(b[1]) \o <<".">> \o Itoa(b[2]) \o <<".">> \o Itoa(b[3]) \o <<".">> \o Itoa(b[4])

TestAAAA == RR("AAAA", <<253, 0, 0, 0, 0, 0, 0, 0, 0, 0, 0, 0, 0, 0, 0, 1>>, <<>>)

\* A call of either client has returned the decoding of a successful response.
Succeeded ==
    /\ pc = "returned"
    /\ response.kind = "response"
    /\ response.Rcode = RcodeSuccess
    /\ ret.err = NoError

\* C11: for every A or AAAA record of a successful response the result
\* element at the record's place is an IP literal that denotes the record's
\* address (it parses back to it), whatever record type was asked for; an A
\* record gives its four bytes in dotted decimal, 203.0.113.1 gives
\* "203.0.113.1" and fd00::1 gives "fd00::1".
C11_AddressLiteral ==
    Succeeded =>
        \A i \in 1..Len(response.Answer) :
            LET a == response.Answer[i]
            IN  a.type \in {"A", "AAAA"} =>
                    /\ i <= Len(ret.ips.items)
                    /\ ParseIP(ret.ips.items[i]) = RecordAddress(a)
                    /\ a.type = "A" => ret.ips.items[i] = Dotted(a.ip)
                    /\ a = TestA1 => ret.ips.items[i] = <<"2", "0", "3", ".", "0", ".", "1", "1", "3", ".", "1">>
                    /\ a = TestAAAA => ret.ips.items[i] = <<"f", "d", "0", "0", ":", ":", "1">>

\* C11's case: NAPTR was asked for, the response held an AAAA and an A
\* record, and both addresses were returned.
C11_Witness ==
    /\ client = "Client"
    /\ Succeeded
    /\ recordType = <<"N", "A", "P", "T", "R">>
    /\ response.Answer = <<TestAAAA, TestA1>>
    /\ ret.ips.items = << <<"f", "d", "0", "0", ":", ":", "1">>,
                          <<"2", "0", "3", ".", "0", ".", "1", "1", "3", ".", "1">> >>

\* ------------------------------------------------- unhandled answer types

\* The answer section holds a record of a kind no decoder of either package
\* or of the specification reads.
HoldsUnhandled(answer) == \E i \in 1..Len(answer) : answer[i].type \notin SpecifiedTypes

\* C12: when a successful response holds a record outside the decoder set,
\* Resolve fails, and the error is of a kind of its own: it is not the
\* UnsupportedRecordType error a bad record-type name gives.
C12_UnhandledAnswerDistinct ==
    (/\ Answered
     /\ response.Rcode = RcodeSuccess
     /\ HoldsUnhandled(response.Answer)) =>
        /\ ret.err # NoError
        /\ ret.ips = NilSlice
        /\ ret.err.kind # ErrUnsupportedRecordType

\* ------------------------------------------------------ record-type names

SupportedNames == {t.name : t \in RecordTypes}

ProtocolCodes ==
    { [name |-> <<"A">>, code |-> 1],
      [name |-> <<"N", "S">>, code |-> 2],
      [name |-> <<"C", "N", "A", "M", "E">>, code |-> 5],
      [name |-> <<"P", "T", "R">>, code |-> 12],
      [name |-> <<"A", "A", "A", "A">>, code |-> 28] }

\* The table gives every name one code and no code to two names.
Injective(table) == \A t, u \in table : (t.name = u.name) <=> (t.code = u.code)

\* The type code the question carries is the protocol code of the record
\* type asked for.
CarriesCode == \E t \in ProtocolCodes : t.name = recordType /\ t.code = question.Qtype

\* C14: the table of the dns/ package gives each supported type its protocol
\* code, one to one, and the question of every message sent for a supported
\* type carries exactly that code, never 0 and never another type's.
C14_QuestionCarriesCode ==
    /\ DnsRecordTypes = ProtocolCodes
    /\ Injective(DnsRecordTypes)
    /\ (pc = "exchanging" /\ recordType \in {t.name : t \in ProtocolCodes}) =>
            /\ question.Qtype # 0
            /\ CarriesCode

\* What of C14 the current package's client does: its questions carry the
\* code of the type asked for.
C14_CurrentClientCarriesCode ==
    /\ Injective(RecordTypes)
    /\ (client = "Client" /\ pc = "exchanging" /\ recordType \in {t.name : t \in ProtocolCodes}) =>
            /\ question.Qtype # 0
            /\ CarriesCode

\* ------------------------------------------- no exchange for a bad type

\* C15: a Resolve called with a record-type name outside the supported set
\* has returned the UnsupportedRecordType error with no list, and no exchange
\* was started for it: no question built, no address dialled, no response.
C15_NoExchangeOnBadType ==
    (client = "Client" /\ pc # "idle" /\ recordType \notin SupportedNames) =>
        /\ pc = "returned"
        /\ ret = Return(NilSlice, Error(ErrUnsupportedRecordType, "invalid DNS record type"))
        /\ exchanges = 0
        /\ dial = <<>>
        /\ question = NoQuestion
        /\ response = NoResponse

\* C15's case: MX was asked for and the call is over without an exchange.
C15_Witness ==
    /\ client = "Client"
    /\ pc = "returned"
    /\ recordType = <<"M", "X">>
    /\ ret.err.kind = ErrUnsupportedRecordType
    /\ exchanges = 0

\* ------------------------------------------------- one exchange per call

\* The record-type names the client whose call runs accepts.
AcceptedNames == IF client = "DnsClient" THEN {t.name : t \in DnsRecordTypes} ELSE SupportedNames

\* C17: a Resolve call starts at most one exchange, and exactly one when its
\* record type is valid; an exchange that failed is not started again, and
\* the call returns no list and an error that carries the cause the exchange
\* failed with.
C17_OneExchangeNoRetry ==
    /\ exchanges <= 1
    /\ pc # "idle" => (exchanges = 1 <=> recordType \in AcceptedNames)
    /\ (pc = "returned" /\ response.kind = "error") =>
            /\ exchanges = 1
            /\ ret.ips = NilSlice
            /\ ret.err.kind = "transport"
            /\ ret.err.cause = response.err
            /\ response.err \in TransportCauses

\* C17's case: the one exchange of the call timed out and the call returned
\* that cause.
C17_Witness ==
    /\ client = "Client"
    /\ pc = "returned"
    /\ exchanges = 1
    /\ response = TransportFailure("i/o timeout")
    /\ ret = Return(NilSlice, TransportError("querying the DNS nameserver failed", "i/o timeout"))

\* ------------------------------------------------ claims about the modules

\* The call was rejected by the module itself: its promise is rejected, once,
\* no goroutine was created for it, and nothing of the client call happened:
\* no question, no address dialled, no exchange, no lookup, no sample.
RejectedBeforeIO(c) ==
    /\ c.pc = "returned"
    /\ c.promise.state = "rejected"
    /\ c.promise.settles = 1
    /\ c.exchanges = 0
    /\ c.question = NoQuestion
    /\ c.dial = <<>>
    /\ c.response = NoResponse
    /\ c.lookup = NoLookup
    /\ c.ret = Return(NilSlice, NoError)
    /\ c.pushed = 0

\* The nameserver parser of the module's package returns an error on the
\* call's nameserver string.
FailsValidation(c) ==
    /\ c.op = "resolve"
    /\ c.nameserverAddr.isString
    /\ ParseFor(pkg, c.nameserverAddr.str).err # ""

InitContextErrors ==
    { Error("plain", "resolve can not be used in the init context"),
      Error("plain", "lookup can not be used in the init context") }

\* C16: a resolve call whose nameserver string fails validation is rejected
\* by the module before any I/O: no goroutine, no exchange; when the checks
\* before the parser passed, the promise carries the parser's error.  In the
\* current package the strings not-an-ip, fd00::1, 203.0.113.1:999999,
\* 203.0.113.1:dns and the empty string are such strings; in dns/, fd00::1 and
\* 203.0.113.1:dns.
C16_InvalidNameserverNoIO ==
    \A i \in 1..MaxCalls :
        LET c == calls[i]
        IN  /\ FailsValidation(c) =>
                    /\ RejectedBeforeIO(c)
                    /\ (c.query.isString /\ c.recordType.isString /\ c.promise.err \notin InitContextErrors)
                            => c.promise.err = Error(ParseFor(pkg, c.nameserverAddr.str).err, "")
            /\ (c.op = "resolve" /\ c.nameserverAddr \in {Str(BareIPv6), Str(NoDigitPort)})
                    => FailsValidation(c)
            /\ (c.op = "resolve" /\ pkg = "current"
                    /\ c.nameserverAddr \in {Str(NotAnIP), Str(BigPort), Str(<<>>)})
                    => FailsValidation(c)

\* C16's case: in a VU, resolve was called with the nameserver not-an-ip and
\* the promise is rejected with the invalid-IP-address error.
C16_Witness ==
    /\ pkg = "current"
    /\ vuState = "active"
    /\ calls[1].op = "resolve"
    /\ calls[1].nameserverAddr = Str(NotAnIP)
    /\ calls[1].recordType = Str(<<"A">>)
    /\ calls[1].pc = "returned"
    /\ calls[1].promise.err = Error(ErrIPAddress, "")

\* C18: resolve and lookup called in the init context (VU state nil) return
\* a promise rejected with the init-context error, with no goroutine and no
\* I/O; such a call stays as it is when the VU becomes active.
C18_InitContextRejected ==
    \A i \in 1..MaxCalls :
        LET c == calls[i]
        IN  /\ (vuState = "nil" /\ c.op # "none") =>
                    /\ RejectedBeforeIO(c)
                    /\ c.promise.err \in InitContextErrors
            /\ c.promise.err \in InitContextErrors => RejectedBeforeIO(c)
            /\ c.pc \notin {"idle", "returned"} => vuState = "active"

\* C18's case: resolve was called in the init context with arguments that
\* are all valid, and the promise is rejected.
C18_Witness ==
    /\ vuState = "nil"
    /\ calls[1].op = "resolve"
    /\ calls[1].query = Str(K6io)
    /\ calls[1].recordType = Str(<<"A">>)
    /\ calls[1].nameserverAddr = Str(Ns4)
    /\ calls[1].promise.state = "rejected"
    /\ calls[1].promise.err = Error("plain", "resolve can not be used in the init context")

\* What a call returns, from its own arguments and the reply to its own
\* exchange or lookup alone.
OwnOutcome(c) ==
    IF c.op = "lookup"
    THEN (IF c.lookup.kind = "error" THEN Return(NilSlice, ClientLookupError(pkg, c.lookup.err))
          ELSE Return([isNil |-> FALSE, items |-> c.lookup.addrs], NoError))
    ELSE IF ~ClientQuestion(pkg, c.query.str, c.recordType.str).ok
    THEN Return(NilSlice, ClientQuestion(pkg, c.query.str, c.recordType.str).err)
    ELSE IF c.response.kind = "error" THEN Return(NilSlice, ClientExchangeError(pkg, c.response.err))
    ELSE ClientHandle(pkg, [Rcode |-> c.response.Rcode, Answer |-> c.response.Answer])

\* The client call of c has returned.
ClientReturned(c) == c.pc \in {"push1", "send1", "push2", "send2", "done"}

\* The call is as its own arguments and its own reply make it.
Independent(c) ==
    /\ c.pc \notin {"idle", "returned"} =>
            c.nameserver = ParseFor(pkg, c.nameserverAddr.str).ns \/ c.op = "lookup"
    /\ (c.op = "resolve" /\ c.exchanges > 0) =>
            /\ c.dial = Addr(ParseFor(pkg, c.nameserverAddr.str).ns)
            /\ c.question = ClientQuestion(pkg, c.query.str, c.recordType.str).question
    /\ ClientReturned(c) => c.ret = OwnOutcome(c)
    /\ c.pc = "done" =>
            IF c.ret.err # NoError
            THEN c.promise.state = "rejected" /\ c.promise.err = c.ret.err
            ELSE c.promise.state = "resolved" /\ c.promise.value = c.ret.ips

\* A step changes one call at most.
OneCallPerStep ==
    \A i, j \in 1..MaxCalls : (i # j /\ calls'[i] # calls[i]) => calls'[j] = calls[j]

\* A step of a call leaves its arguments and, once parsed, its nameserver as
\* they are.
ArgumentsKept ==
    \A i \in 1..MaxCalls :
        calls[i].op # "none" =>
            /\ calls'[i].op = calls[i].op
            /\ calls'[i].query = calls[i].query
            /\ calls'[i].recordType = calls[i].recordType
            /\ calls'[i].nameserverAddr = calls[i].nameserverAddr
            /\ calls'[i].hostname = calls[i].hostname
            /\ calls[i].pc # "idle" => calls'[i].nameserver = calls[i].nameserver

\* C19: with the calls of one module instance interleaved in every way, each
\* call's nameserver, question, result and promise are those its own
\* arguments and the reply to its own exchange or lookup give; a step of one
\* call changes nothing of another call; the client is never changed, and no
\* call's arguments or nameserver are.
C19_CallsIndependent ==
    /\ [](dnsClient = NewDNSClient /\ \A i \in 1..MaxCalls : Independent(calls[i]))
    /\ [][OneCallPerStep /\ ArgumentsKept /\ dnsClient' = dnsClient]_vars

\* C19's case: the second call of the module was resolved with its own
\* answer while the first, called with the same arguments, is still waiting
\* for its reply.
C19_Witness ==
    /\ calls[1].op = "resolve"
    /\ calls[1].pc = "exchanging"
    /\ calls[2].op = "resolve"
    /\ calls[2].recordType = calls[1].recordType
    /\ calls[2].pc = "done"
    /\ calls[2].promise.state = "resolved"
    /\ calls[2].promise.value.items = << Ns4 >>

\* C20: a call whose context was done when its exchange or lookup completed
\* has returned an error and no results.
C20_CancelledCallFails ==
    \A i \in 1..MaxCalls :
        LET c == calls[i]
        IN  (ClientReturned(c) /\ c.ctxAtReturn) =>
                /\ c.ret.err # NoError
                /\ c.ret.ips = NilSlice


\* ------------------------------------------------------------ the lookup

\* C21: what Client.Lookup returned is the OS resolver's address sequence as
\* it is, element by element and in its order; when the OS resolver failed
\* it is the nil list and an error that carries the resolver's error as its
\* cause, in the current package behind the lookup-failed message.  The
\* module resolves the promise with that same list.
C21_LookupVerbatim ==
    \A i \in 1..MaxCalls :
        LET c == calls[i]
        IN  (c.op = "lookup" /\ ClientReturned(c)) =>
                /\ c.lookup.kind = "addrs" =>
                        /\ c.ret.err = NoError
                        /\ ~c.ret.ips.isNil
                        /\ Len(c.ret.ips.items) = Len(c.lookup.addrs)
                        /\ \A k \in 1..Len(c.lookup.addrs) : c.ret.ips.items[k] = c.lookup.addrs[k]
                        /\ c.promise.state = "resolved" => c.promise.value = c.ret.ips
                /\ c.lookup.kind = "error" =>
                        /\ c.ret.ips = NilSlice
                        /\ c.ret.err # NoError
                        /\ c.ret.err.cause = c.lookup.err
                        /\ c.lookup.err \in TransportCauses
                        /\ pkg = "current" => c.ret.err.msg = "lookup failed"
                        /\ c.promise.state = "rejected"
                        /\ c.promise.err = c.ret.err
                /\ c.lookup.kind # "none"

\* C21's case: the OS resolver returned an IPv6 address and then an IPv4
\* address, and the promise of the lookup was resolved with the two, in
\* that order.
C21_Witness ==
    /\ calls[1].op = "lookup"
    /\ calls[1].hostname = Str(K6io)
    /\ calls[1].pc = "done"
    /\ calls[1].lookup.kind = "addrs"
    /\ Len(calls[1].lookup.addrs) = 2
    /\ Contains(calls[1].lookup.addrs[1], ":")
    /\ calls[1].promise.state = "resolved"
    /\ calls[1].promise.value.items = calls[1].lookup.addrs

\* ------------------------------------------------- the metrics' channel

\* The client call of c has returned a result and no error.
ClientSucceeded(c) == ClientReturned(c) /\ c.ret.err = NoError

\* The promise of c is settled as the client's return says.
SettledAsReturned(c) ==
    IF c.ret.err # NoError
    THEN c.promise.state = "rejected" /\ c.promise.err = c.ret.err
    ELSE c.promise.state = "resolved" /\ c.promise.value = c.ret.ips

\* C22: whatever the samples channel does, a call whose client call
\* succeeded has its promise resolved in the end, with the client's result;
\* and a promise that is settled is settled as the client returned, however
\* many of the call's samples the channel took.
C22_SinkDoesNotDecide ==
    /\ [](\A i \in 1..MaxCalls :
            calls[i].promise.state \in {"resolved", "rejected"} /\ calls[i].pc = "done"
                => SettledAsReturned(calls[i]))
    /\ \A i \in 1..MaxCalls :
            ClientSucceeded(calls[i]) ~> (calls[i].promise.state = "resolved")

\* The part of C22 that holds: a settled promise carries what the client
\* returned, whether the call's samples were sent (pushed = 2) or dropped.
C22_ValueUnaffected ==
    \A i \in 1..MaxCalls :
        (calls[i].pc = "done" /\ calls[i].op # "none") => SettledAsReturned(calls[i])

\* ------------------------------------------------------- the dial string

\* The dial string of n denotes n: it splits as host:port, and the exported
\* parser reads the same address and port from it.
AddrDenotes(n) ==
    /\ SplitHostPort(Addr(n)).ok
    /\ ParseNameserverAddr(Addr(n)) = ParseOk(n.IP, n.Port)

\* C23: for every Nameserver that ParseNameserverAddr returned, Addr() is a
\* host:port string that ParseNameserverAddr parses back to the same address
\* and the same port.
C23_AddrRoundTrip ==
    (parser = "ParseNameserverAddr" /\ parsed.err = "") => AddrDenotes(parsed.ns)

\* The part of C23 that holds: the dial string of a Nameserver with an IPv4
\* address, which net.IP.String writes without a colon.
C23_IPv4AddrRoundTrip ==
    (parser = "ParseNameserverAddr" /\ parsed.err = "" /\ To4(parsed.ns.IP) # NilIP)
        => AddrDenotes(parsed.ns)

\* ------------------------------------------------- the promise of a call

C24_SettledAtMostOnce ==
    /\ [](\A i \in 1..MaxCalls : calls[i].promise.settles <= 1)
    /\ [][\A i \in 1..MaxCalls :
            calls[i].promise.state \in {"resolved", "rejected"} => calls'[i].promise = calls[i].promise]_vars

\* A call whose client call failed has its promise rejected with that error
\* in the same step, whatever the samples channel does.
C24_FailureRejects ==
    \A i \in 1..MaxCalls :
        (ClientReturned(calls[i]) /\ calls[i].ret.err # NoError) => SettledAsReturned(calls[i])

\* With a receiver that keeps taking from the samples channel, every call
\* whose client call returned has its promise settled in the end.
C24_SettledWhenDrained ==
    WF_vars(DrainSample) =>
        \A i \in 1..MaxCalls : ClientReturned(calls[i]) ~> SettledAsReturned(calls[i])

\* ------------------------------------------------- the samples of a call

\* The n-th sample of a call as the claim describes it: the counter of value
\* 1, then the duration, each tagged with the call's own query, record type
\* and dial string, or with its hostname.
ExpectedSample(c, n) ==
    [metric     |-> IF c.op = "resolve"
                    THEN (IF n = 1 THEN "dns_resolutions" ELSE "dns_resolution_duration")
                    ELSE (IF n = 1 THEN "dns_lookups" ELSE "dns_lookup_duration"),
     value      |-> IF n = 1 THEN "1" ELSE "elapsed",
     query      |-> c.query.str,
     recordType |-> c.recordType.str,
     nameserver |-> IF c.op = "resolve" THEN Addr(c.nameserver) ELSE <<>>,
     host       |-> c.hostname.str]

\* What the channel can hold of the samples of a call that has sent k of
\* them: the last ones, the receiver having taken the others from the front.
SentBy(c, k) ==
    { SubSeq(<<ExpectedSample(c, 1), ExpectedSample(c, 2)>>, from, k) : from \in 1..(k + 1) }

\* C25: a call sends samples only after its client call succeeded: the
\* counter of value 1 first, then the duration, both with the call's tags,
\* and no third one; a call whose promise is rejected has sent none; and
\* every sample of a call is sent before its promise is resolved: once the
\* promise is resolved the call sends no more.
C25_SamplesOnSuccessBeforeResolve ==
    /\ [](\A i \in 1..MaxCalls :
            LET c == calls[i]
            IN  /\ c.pushed > 0 => ClientSucceeded(c)
                /\ c.promise.state = "rejected" => c.pushed = 0
                /\ c.ret.err # NoError => c.pushed = 0
                /\ c.pushed <= 2
                /\ c.pc = "push2" => c.pushed <= 1
                /\ c.pc \in {"idle", "returned", "spawned", "exchanging", "looking", "push1", "send1"}
                        => c.pushed = 0
                /\ i = 1 => samples \in SentBy(c, c.pushed))
    /\ [][\A i \in 1..MaxCalls :
            /\ calls[i].promise.state = "resolved" => calls'[i].pushed = calls[i].pushed
            /\ calls'[i].pushed # calls[i].pushed =>
                    /\ calls'[i].pushed = calls[i].pushed + 1
                    /\ calls[i].promise.state = "pending"
                    /\ samples' = Append(samples, ExpectedSample(calls[i], calls'[i].pushed))]_vars

\* C25's case: a resolve call succeeded, sent its two samples, the counter
\* first, and then resolved its promise.
C25_Witness ==
    /\ calls[1].op = "resolve"
    /\ calls[1].pc = "done"
    /\ calls[1].promise.state = "resolved"
    /\ calls[1].pushed = 2
    /\ Len(samples) = 2
    /\ samples[1].metric = "dns_resolutions"
    /\ samples[1].value = "1"
    /\ samples[2].metric = "dns_resolution_duration"
    /\ samples[1].nameserver = calls[1].dial

\* ------------------------------------------------- the order of the checks

\* The record-type name of c is one the client of the package rejects.
BadRecordType(c) ==
    c.recordType.isString /\ ~ClientQuestion(pkg, c.query.str, c.recordType.str).ok

\* The errors of the record-type validation.
RecordTypeErrors ==
    { Error(ErrUnsupportedRecordType, "invalid DNS record type"), Error("enumer", "invalid record type") }

\* C26: resolve rejects with the error of the first check that fails, in the
\* order VU state, query, recordType, nameserver (a string), nameserver (its
\* address); a call rejected by a check has done nothing of what follows it;
\* the record-type name is not looked at by these checks: a call with a bad
\* name and a good nameserver gets its goroutine and is rejected there,
\* before any exchange, and a call with a bad name and a bad nameserver
\* address is rejected with the nameserver's error.
C26_ChecksInOrder ==
    /\ [](\A i \in 1..MaxCalls :
            LET c == calls[i]
                e == c.promise.err
                p == ParseFor(pkg, c.nameserverAddr.str)
            IN  c.op = "resolve" =>
                    /\ vuState = "nil" => e = Error("plain", "resolve can not be used in the init context")
                    /\ c.pc = "returned" => RejectedBeforeIO(c) /\ e \notin RecordTypeErrors
                    /\ e \notin InitContextErrors =>
                        /\ ~c.query.isString => e = Error("plain", "query must be a string")
                        /\ (c.query.isString /\ ~c.recordType.isString)
                                => e = Error("plain", "recordType must be a string")
                        /\ (c.query.isString /\ c.recordType.isString /\ ~c.nameserverAddr.isString)
                                => e = NameserverExportError(pkg)
                        /\ (c.query.isString /\ c.recordType.isString /\ c.nameserverAddr.isString
                                /\ p.err # "")
                                => e = Error(p.err, "")
                        /\ (c.query.isString /\ c.recordType.isString /\ c.nameserverAddr.isString
                                /\ p.err = "")
                                => /\ c.pc # "returned"
                                   /\ c.nameserver = p.ns
                                   /\ (BadRecordType(c) /\ c.pc # "spawned")
                                        => /\ c.pc = "done"
                                           /\ e \in RecordTypeErrors
                                           /\ c.exchanges = 0
                        /\ (~c.query.isString \/ ~c.recordType.isString \/ ~c.nameserverAddr.isString
                                \/ p.err # "")
                                => c.pc = "returned")
    /\ [][\A i \in 1..MaxCalls :
            (calls[i].op = "none" /\ calls'[i].op = "resolve" /\ vuState = "active")
                => calls'[i].promise.err \notin InitContextErrors]_vars

\* C26's case: in a VU, resolve was called with the record type MX and the
\* nameserver not-an-ip, both invalid, and the promise is rejected with the
\* nameserver's invalid-IP-address error.
C26_Witness ==
    /\ pkg = "current"
    /\ vuState = "active"
    /\ calls[1].op = "resolve"
    /\ calls[1].recordType = Str(<<"M", "X">>)
    /\ BadRecordType(calls[1])
    /\ calls[1].nameserverAddr = Str(NotAnIP)
    /\ calls[1].pc = "returned"
    /\ calls[1].promise.state = "rejected"
    /\ calls[1].promise.err = Error(ErrIPAddress, "")

\* ------------------------------------------------------- no answer at all

\* The nameserver replied to c with the success status and no answer.
EmptySuccess(c) ==
    /\ c.op = "resolve"
    /\ c.response.kind = "response"
    /\ c.response.Rcode = RcodeSuccess
    /\ c.response.Answer = <<>>

\* C27: a reply with the success status and an empty answer section makes
\* Resolve return a list without elements and no error, and the module
\* resolves the promise, once, with that list; the promise is never
\* rejected.
C27_EmptyAnswerIsSuccess ==
    \A i \in 1..MaxCalls :
        LET c == calls[i]
        IN  EmptySuccess(c) =>
                /\ ClientReturned(c)
                /\ c.ret.err = NoError
                /\ c.ret.ips.items = <<>>
                /\ c.promise.state # "rejected"
                /\ c.pc = "done" =>
                        /\ c.promise.state = "resolved"
                        /\ c.promise.value = c.ret.ips
                        /\ Len(c.promise.value.items) = 0
                        /\ c.promise.settles = 1

\* C27's case: the current client got a success reply without answers and
\* the promise of the call is resolved with the list without elements.
C27_Witness ==
    /\ pkg = "current"
    /\ EmptySuccess(calls[1])
    /\ calls[1].pc = "done"
    /\ calls[1].promise.state = "resolved"
    /\ calls[1].promise.value.items = <<>>

\* ------------------------------------------------------- every input string

\* What a current parser can return: a Nameserver with a 16-byte address and
\* a port of the port range and no error, or the zero Nameserver and one of
\* the parser's errors.
ParserOutcomes(p) ==
    \/ /\ p.err = ""
       /\ Len(p.ns.IP) = 16
       /\ p.ns.Port \in 0..MaxPort
    \/ /\ p.err \in {ErrAddressFormat, ErrIPv6AddressFormat, ErrIPAddress, ErrPortNotNumber, ErrPortOutOfRange}
       /\ p.ns = ZeroNameserver

\* The short inputs the claim names.
NamedShortInputs == { <<>>, <<":">>, <<"]">>, <<"[">>, <<"]", ":">>, <<"[", "]">> }

\* C28: on every input string both current parsers return a Nameserver or
\* an error; the bracket-stripping branch is reached only with a colon and
\* a "]" in the string, and there addr[0], addr[len-1] and addr[1:len-1]
\* are in range; the branch is where the IPv6-format error comes from and
\* where bracketed addresses without a port are read.  The short inputs "",
\* ":", "]", "[", "]:" and "[]" all end with an error.
C28_ParserTotal ==
    parser \in CurrentParsers =>
        /\ ParserOutcomes(parsed)
        /\ ReachesBracketTrim(addr) =>
                /\ BracketTrimInRange(addr)
                /\ Len(addr) >= 2
                /\ IF addr[1] = "[" /\ addr[Len(addr)] = "]"
                   THEN parsed = HostAndPortToNameserver(SubSeq(addr, 2, Len(addr) - 1), <<>>)
                   ELSE parsed.err \in {ErrIPv6AddressFormat, ErrAddressFormat}
        /\ parsed.err = ErrIPv6AddressFormat => ReachesBracketTrim(addr)
        /\ addr \in NamedShortInputs => parsed.err # ""

\* C28's case: the exported parser was given "[:]", the shortest input that
\* takes the branch through all three accesses, and returned the
\* invalid-IP-address error for the host ":".
C28_Witness ==
    /\ parser = "ParseNameserverAddr"
    /\ addr = <<"[", ":", "]">>
    /\ ReachesBracketTrim(addr)
    /\ BracketTrimInRange(addr)
    /\ parsed = ParseFail(ErrIPAddress)

====
